---- MODULE Spec2Model ----
(***************************************************************************)
(* Model of the informal-text expense extraction engine of mahabudget      *)
(* (services/accountant.py).  Texts are TLA+ strings; the regular          *)
(* expressions of the source are translated to scanning operators over     *)
(* the characters of a string.                                             *)
(***************************************************************************)
EXTENDS Integers, Sequences, FiniteSets, TLC

VARIABLES msg, pc, payload, response, result, raised, path, calls, fn, ret

\* services/scanner.py, parse_text_with_accountant: one receipt being parsed
VARIABLES ocr_text, scan_pc, scan_response, receipt_data, scan_calls

\* routes/chat.py, process_chat_message: one chat request and the expenses table
VARIABLES chat_pc, extractions, next_extraction, saved_expenses, expenses,
          chat_out

\* two invocations of extract_multiple_expenses and the module-level client
VARIABLES inv, groq_client

scanVars == <<ocr_text, scan_pc, scan_response, receipt_data, scan_calls>>

chatVars ==
  <<chat_pc, extractions, next_extraction, saved_expenses, expenses, chat_out>>

concVars == <<inv, groq_client>>

accountantVars ==
  <<msg, pc, payload, response, result, raised, path, calls, fn, ret>>

vars == <<accountantVars, scanVars, chatVars, concVars>>

-----------------------------------------------------------------------------
(* Bounds *)

\* number of vocabulary pieces concatenated into a generated text
MaxPieces == 3

\* number of candidate objects in a remote JSON array
MaxItems == 2

-----------------------------------------------------------------------------
(* Characters and character classes (Python str / re semantics, ASCII) *)

Ch(s, i) == SubSeq(s, i, i)

DigitChars == {"0", "1", "2", "3", "4", "5", "6", "7", "8", "9"}

UpperChars == {"A", "B", "C", "D", "E", "F", "G", "H", "I", "J", "K", "L", "M",
               "N", "O", "P", "Q", "R", "S", "T", "U", "V", "W", "X", "Y", "Z"}

LowerChars == {"a", "b", "c", "d", "e", "f", "g", "h", "i", "j", "k", "l", "m",
               "n", "o", "p", "q", "r", "s", "t", "u", "v", "w", "x", "y", "z"}

\* \w of the re module
WordChars == DigitChars \cup UpperChars \cup LowerChars \cup {"_"}

\* \s of the re module, and the characters str.strip() removes
SpaceChars == {" ", "\t", "\n"}

LowerChar(c) ==
  CASE c = "A" -> "a" [] c = "B" -> "b" [] c = "C" -> "c" [] c = "D" -> "d"
    [] c = "E" -> "e" [] c = "F" -> "f" [] c = "G" -> "g" [] c = "H" -> "h"
    [] c = "I" -> "i" [] c = "J" -> "j" [] c = "K" -> "k" [] c = "L" -> "l"
    [] c = "M" -> "m" [] c = "N" -> "n" [] c = "O" -> "o" [] c = "P" -> "p"
    [] c = "Q" -> "q" [] c = "R" -> "r" [] c = "S" -> "s" [] c = "T" -> "t"
    [] c = "U" -> "u" [] c = "V" -> "v" [] c = "W" -> "w" [] c = "X" -> "x"
    [] c = "Y" -> "y" [] c = "Z" -> "z" [] OTHER -> c

RECURSIVE LowerFrom(_, _)
LowerFrom(s, i) ==
  IF i > Len(s) THEN "" ELSE LowerChar(Ch(s, i)) \o LowerFrom(s, i + 1)

\* str.lower()
Lower(s) == LowerFrom(s, 1)

RECURSIVE FirstNonSpace(_, _)
FirstNonSpace(s, i) ==
  IF i > Len(s) THEN i
  ELSE IF Ch(s, i) \in SpaceChars THEN FirstNonSpace(s, i + 1) ELSE i

RECURSIVE LastNonSpace(_, _)
LastNonSpace(s, i) ==
  IF i < 1 THEN i
  ELSE IF Ch(s, i) \in SpaceChars THEN LastNonSpace(s, i - 1) ELSE i

\* str.strip()
Strip(s) ==
  LET a == FirstNonSpace(s, 1)
      b == LastNonSpace(s, Len(s))
  IN  IF a > b THEN "" ELSE SubSeq(s, a, b)

-----------------------------------------------------------------------------
(* Regular-expression building blocks *)

IsDigitAt(s, i) == i >= 1 /\ i <= Len(s) /\ Ch(s, i) \in DigitChars

IsWordAt(s, i) == i >= 1 /\ i <= Len(s) /\ Ch(s, i) \in WordChars

\* the literal w occurs in s at position i
StartsAt(s, i, w) ==
  i >= 1 /\ i + Len(w) - 1 <= Len(s) /\ SubSeq(s, i, i + Len(w) - 1) = w

\* re.search of a literal
Contains(s, w) == \E i \in 1..Len(s) : StartsAt(s, i, w)

\* \b at position p (between s[p-1] and s[p])
Boundary(s, p) == IsWordAt(s, p - 1) # IsWordAt(s, p)

\* greedy \d* from i: the position after the run
RECURSIVE DigitsEnd(_, _)
DigitsEnd(s, i) == IF IsDigitAt(s, i) THEN DigitsEnd(s, i + 1) ELSE i

\* greedy \s* from i: the position after the run
RECURSIVE SpacesEnd(_, _)
SpacesEnd(s, i) ==
  IF i <= Len(s) /\ Ch(s, i) \in SpaceChars THEN SpacesEnd(s, i + 1) ELSE i

\* match of (\d+)\s*<suf> at position i, followed by \b when bounded:
\* the position after the match, 0 when there is no match at i
SuffixMatchEnd(s, i, suf, bounded) ==
  IF ~IsDigitAt(s, i) THEN 0
  ELSE LET p == SpacesEnd(s, DigitsEnd(s, i))
           e == p + Len(suf)
       IN  IF StartsAt(s, p, suf) /\ (bounded => Boundary(s, e)) THEN e ELSE 0

\* match of (\d+)[.,](\d+)\s*<suf>\b at position i: the position after the
\* match, 0 when there is no match at i
DecimalMatchEnd(s, i, suf) ==
  IF ~IsDigitAt(s, i) THEN 0
  ELSE LET j == DigitsEnd(s, i)
       IN  IF ~(j <= Len(s) /\ Ch(s, j) \in {".", ","}) \/ ~IsDigitAt(s, j + 1)
           THEN 0
           ELSE LET p == SpacesEnd(s, DigitsEnd(s, j + 1))
                    e == p + Len(suf)
                IN  IF StartsAt(s, p, suf) /\ Boundary(s, e) THEN e ELSE 0

-----------------------------------------------------------------------------
(* Digit strings and integers *)

DigitVal(c) ==
  CASE c = "0" -> 0 [] c = "1" -> 1 [] c = "2" -> 2 [] c = "3" -> 3
    [] c = "4" -> 4 [] c = "5" -> 5 [] c = "6" -> 6 [] c = "7" -> 7
    [] c = "8" -> 8 [] c = "9" -> 9

DigitOf(n) ==
  CASE n = 0 -> "0" [] n = 1 -> "1" [] n = 2 -> "2" [] n = 3 -> "3"
    [] n = 4 -> "4" [] n = 5 -> "5" [] n = 6 -> "6" [] n = 7 -> "7"
    [] n = 8 -> "8" [] n = 9 -> "9"

\* int(d) for a digit string d
RECURSIVE ToInt(_)
ToInt(d) ==
  IF Len(d) = 0 THEN 0
  ELSE 10 * ToInt(SubSeq(d, 1, Len(d) - 1)) + DigitVal(Ch(d, Len(d)))

\* str(n) for a natural number n
RECURSIVE ToDigits(_)
ToDigits(n) == IF n < 10 THEN DigitOf(n) ELSE ToDigits(n \div 10) \o DigitOf(n % 10)

RECURSIVE StripZeros(_)
StripZeros(d) ==
  IF Len(d) > 0 /\ Ch(d, 1) = "0" THEN StripZeros(SubSeq(d, 2, Len(d))) ELSE d

RECURSIVE Zeros(_)
Zeros(n) == IF n = 0 THEN "" ELSE "0" \o Zeros(n - 1)

\* str(int(d) * 10^z), computed on the digits (Python integers are unbounded)
TimesPow10(d, z) ==
  IF StripZeros(d) = "" THEN "0" ELSE StripZeros(d) \o Zeros(z)

-----------------------------------------------------------------------------
(* Expense-likelihood gate: has_expense_pattern / has_money_indicator *)

\* re.search(r'\d+\s*<suf>', s), without a word boundary
SearchSuffix(s, suf) == \E i \in 1..Len(s) : SuffixMatchEnd(s, i, suf, FALSE) # 0

\* re.search(r'\d{4,}', s)
SearchDigitRun(s) == \E i \in 1..Len(s) : DigitsEnd(s, i) - i >= 4

\* re.search of an alternation of literals
ContainsAny(s, words) == \E w \in words : Contains(s, w)

TransactionVerbs == {"beli", "bayar", "abis", "habis", "keluar", "spend"}

CostWords == {"harga", "biaya", "ongkir", "ongkos"}

has_money_indicator(message) ==
  LET m == Lower(message)
  IN  \/ SearchSuffix(m, "k") \/ SearchSuffix(m, "r")
      \/ SearchSuffix(m, "rb")
      \/ SearchSuffix(m, "ribu")
      \/ SearchSuffix(m, "jt")
      \/ SearchSuffix(m, "juta")
      \/ SearchDigitRun(m)
      \/ ContainsAny(m, TransactionVerbs)
      \/ ContainsAny(m, CostWords)

\* ^(w1|w2|...) with an optional \b after the word
PrefixAny(s, words, bounded) ==
  \E w \in words : StartsAt(s, 1, w) /\ (bounded => Boundary(s, Len(w) + 1))

\* ^(w1|w2|...)\s*(t1|t2|...)?$
WholeAny(s, words, tails) ==
  \E w \in words :
    /\ StartsAt(s, 1, w)
    /\ LET p == SpacesEnd(s, Len(w) + 1)
       IN  \/ p > Len(s)
           \/ \E t \in tails : StartsAt(s, p, t) /\ p + Len(t) > Len(s)

Greetings == {"hai", "halo", "hi", "hey", "yo"}

Reactions == {"oke", "ok", "siap", "mantap", "nice", "wkwk", "haha", "lol", "wkwkwk"}

Thanks == {"makasih", "thanks", "thx", "terima kasih"}

Affirmations == {"iya", "yoi", "yup", "yes", "ya", "bener", "betul"}

Negations == {"ga", "gak", "nggak", "tidak", "no", "nope"}

Satisfaction == {"kenyang", "puas", "enak", "mantul", "mantep"}

PriceComments == {"mahal", "murah"}

PriceTails == {"bgt", "banget", "amat"}

BareEmotions == {"sedih", "seneng", "senang", "kesel", "marah"}

EmotionTails == {"bgt", "banget"}

\* some pattern of casual_patterns is found by re.search in s
casual_patterns(s) ==
  \/ PrefixAny(s, Greetings, TRUE)
  \/ PrefixAny(s, Reactions, TRUE)
  \/ PrefixAny(s, Thanks, FALSE)
  \/ PrefixAny(s, Affirmations, FALSE)
  \/ PrefixAny(s, Negations, FALSE)
  \/ PrefixAny(s, Satisfaction, FALSE)
  \/ WholeAny(s, PriceComments, PriceTails)
  \/ StartsAt(s, 1, "gimana") \/ Contains(s, "bagaimana") \/ Contains(s, "apa kabar")
  \/ WholeAny(s, BareEmotions, EmotionTails)
  \/ Contains(s, "mana ada")

\* the length under which a message is taken for a reaction
MinMessageLen == 5

has_expense_pattern_short3(message) ==
  LET message_lower == Strip(Lower(message))
  IN  IF Len(message_lower) < 3 THEN FALSE
      ELSE IF casual_patterns(message_lower)
           THEN IF has_money_indicator(message_lower) THEN TRUE ELSE FALSE
           ELSE has_money_indicator(message_lower)

has_expense_pattern_casual_rejects(message) ==
  LET message_lower == Strip(Lower(message))
  IN  IF Len(message_lower) < MinMessageLen THEN FALSE
      ELSE IF casual_patterns(message_lower) THEN FALSE
      ELSE has_money_indicator(message_lower)

has_expense_pattern(message) ==
  LET message_lower == Strip(Lower(message))
  IN  IF Len(message_lower) < MinMessageLen THEN FALSE
      ELSE IF casual_patterns(message_lower)
           THEN IF has_money_indicator(message_lower) THEN TRUE ELSE FALSE
           ELSE has_money_indicator(message_lower)

-----------------------------------------------------------------------------
(* Amount normalizer: normalize_amount_string *)

\* the fractions d of at most 4 digits for which the double-precision product
\* float("0." + d) * 1000000 lies just below the exact value d * 10^(6 - len),
\* so that int() of it is one less (IEEE-754 binary64, round to nearest even)
FloatShortFractions ==
  {"0157", "0163", "0314", "0319", "0321", "0326", "0628", "0633", "0638",
   "0642", "0643", "0647", "0652", "1251", "1256", "1261", "1266", "1271",
   "1276", "1281", "1284", "1286", "1289", "1291", "1294", "1299", "1304",
   "1309", "2502", "2507", "2512", "2517", "2522", "2527", "2532", "2537",
   "2542", "2547", "2552", "2557", "2562", "2563", "2567", "2568", "2572",
   "2573", "2577", "2578", "2582", "2583", "2588", "2593", "2598", "2603",
   "2608", "2613", "2618", "5003", "5004", "5005", "5013", "5014", "5015",
   "5023", "5024", "5025", "5033", "5034", "5035", "5043", "5044", "5045",
   "5054", "5055", "5064", "5065", "5074", "5075", "5084", "5085", "5094",
   "5095", "5104", "5105", "5114", "5115", "5124", "5125", "5126", "5134",
   "5135", "5136", "5144", "5145", "5146", "5154", "5155", "5156", "5164",
   "5165", "5166", "5175", "5176", "5185", "5186", "5195", "5196", "5205",
   "5206", "5215", "5216", "5225", "5226", "5235", "5236"}
    \* and, of the longer fractions the vocabulary of Pieces can spell:
    \cup {"25025", "25525", "50250", "250250", "252505", "252555", "255250",
          "501500", "2501500", "5015000", "25015000"}

\* the first six digits of the fraction d, as a number of millionths
Millionths(d) ==
  IF Len(d) >= 6 THEN ToInt(SubSeq(d, 1, 6)) ELSE ToInt(d \o Zeros(6 - Len(d)))

\* int(float("0." + d) * 1000000)
FloatMillionths(d) ==
  IF d \in FloatShortFractions THEN Millionths(d) - 1 ELSE Millionths(d)

\* str(whole * 1000000 + micros), on the digits of whole
MillionsPlus(whole, micros) ==
  IF StripZeros(whole) = "" THEN ToDigits(micros)
  ELSE LET m == ToDigits(micros)
       IN  StripZeros(whole) \o Zeros(6 - Len(m)) \o m

replace_million_decimal(whole, decimal_str) ==
  MillionsPlus(whole, FloatMillionths(decimal_str))

\* re.sub(r'(\d+)\s*<suf>\b', str(int(group 1) * 10^z), s), scanning from i
RECURSIVE SubSuffix(_, _, _, _)
SubSuffix(s, i, suf, z) ==
  IF i > Len(s) THEN ""
  ELSE LET e == SuffixMatchEnd(s, i, suf, TRUE)
       IN  IF e # 0
           THEN TimesPow10(SubSeq(s, i, DigitsEnd(s, i) - 1), z) \o SubSuffix(s, e, suf, z)
           ELSE Ch(s, i) \o SubSuffix(s, i + 1, suf, z)

\* re.sub(r'(\d+)[.,](\d+)\s*<suf>\b', replace_million_decimal, s), scanning from i
RECURSIVE SubDecimal(_, _, _)
SubDecimal(s, i, suf) ==
  IF i > Len(s) THEN ""
  ELSE LET e == DecimalMatchEnd(s, i, suf)
           j == DigitsEnd(s, i)
       IN  IF e # 0
           THEN replace_million_decimal(SubSeq(s, i, j - 1),
                                        SubSeq(s, j + 1, DigitsEnd(s, j + 1) - 1))
                  \o SubDecimal(s, e, suf)
           ELSE Ch(s, i) \o SubDecimal(s, i + 1, suf)

\* the normalizer with a thousand rule whose suffix letter is left out of the
\* pattern, (\d+)\s*\b in place of (\d+)\s*k\b
normalize_amount_string_bare_thousand(text) ==
  LET r0 == Lower(text)
      r1 == SubSuffix(r0, 1, "", 3)
      r2 == SubSuffix(r1, 1, "rb", 3)
      r3 == SubSuffix(r2, 1, "ribu", 3)
      r4 == SubDecimal(r3, 1, "jt")
      r5 == SubDecimal(r4, 1, "juta")
      r6 == SubSuffix(r5, 1, "jt", 6)
      r7 == SubSuffix(r6, 1, "juta", 6)
  IN  r7

normalize_amount_string(text) ==
  LET r0 == Lower(text)
      r1 == SubSuffix(r0, 1, "k", 3)
      r2 == SubSuffix(r1, 1, "rb", 3)
      r3 == SubSuffix(r2, 1, "ribu", 3)
      r4 == SubDecimal(r3, 1, "jt")
      r5 == SubDecimal(r4, 1, "juta")
      r6 == SubSuffix(r5, 1, "jt", 6)
      r7 == SubSuffix(r6, 1, "juta", 6)
  IN  r7

-----------------------------------------------------------------------------
(* Emotion detector: detect_emotion_from_text *)

anger_words == {"anjing", "anjir", "bangsat", "babi", "kesel", "kesal", "emosi",
                "bete", "bt", "marah", "goblok", "tolol", "kampret", "sialan",
                "sial", "nyebelin", "sebel", "jengkel"}

sad_words == {"sedih", "nyesel", "menyesal", "kecewa", "galau", "nangis",
              "sakit hati", "patah hati", "gagal", "rugi", "boros"}

happy_words == {"seneng", "senang", "happy", "yey", "yeay", "hore", "asik",
                "mantap", "mantul", "keren", "seru", "bagus", "puas", "worth"}

stress_words == {"stress", "stres", "capek", "cape", "lelah", "pusing", "mumet",
                 "ribet", "deadline", "lembur", "overtime", "sibuk"}

hunger_words == {"lapar", "laper", "hungry", "pengen makan", "kelaparan"}

\* the detector testing the word lists in the order they are declared, the
\* happy list before the stress list
detect_emotion_from_text_declared_order(message) ==
  LET m == Lower(message)
  IN  IF ContainsAny(m, anger_words) THEN [emotion |-> "Marah", sentiment |-> -60]
      ELSE IF ContainsAny(m, sad_words) THEN [emotion |-> "Sedih", sentiment |-> -50]
      ELSE IF ContainsAny(m, happy_words) THEN [emotion |-> "Senang", sentiment |-> 70]
      ELSE IF ContainsAny(m, stress_words) THEN [emotion |-> "Stress", sentiment |-> -40]
      ELSE IF ContainsAny(m, hunger_words) THEN [emotion |-> "Lapar", sentiment |-> 10]
      ELSE [emotion |-> "Netral", sentiment |-> 0]

\* sentiment scores and confidences are counted in hundredths
detect_emotion_from_text(message) ==
  LET m == Lower(message)
  IN  IF ContainsAny(m, anger_words) THEN [emotion |-> "Marah", sentiment |-> -60]
      ELSE IF ContainsAny(m, sad_words) THEN [emotion |-> "Sedih", sentiment |-> -50]
      ELSE IF ContainsAny(m, stress_words) THEN [emotion |-> "Stress", sentiment |-> -40]
      ELSE IF ContainsAny(m, happy_words) THEN [emotion |-> "Senang", sentiment |-> 70]
      ELSE IF ContainsAny(m, hunger_words) THEN [emotion |-> "Lapar", sentiment |-> 10]
      ELSE [emotion |-> "Netral", sentiment |-> 0]

-----------------------------------------------------------------------------
(* Fallback amount extractor: extract_amount_fallback *)

\* re.search(r'(\d+)\s*<suf>\b', s): the start of the leftmost match, 0 if none
RECURSIVE SearchSuffixFrom(_, _, _)
SearchSuffixFrom(s, i, suf) ==
  IF i > Len(s) THEN 0
  ELSE IF SuffixMatchEnd(s, i, suf, TRUE) # 0 THEN i
  ELSE SearchSuffixFrom(s, i + 1, suf)

\* re.search(r'(\d+)[.,](\d+)\s*(jt|juta)\b', s): start of the leftmost match
RECURSIVE SearchDecimalFrom(_, _)
SearchDecimalFrom(s, i) ==
  IF i > Len(s) THEN 0
  ELSE IF DecimalMatchEnd(s, i, "jt") # 0 \/ DecimalMatchEnd(s, i, "juta") # 0 THEN i
  ELSE SearchDecimalFrom(s, i + 1)

\* re.search(r'(\d{4,})', s): start of the leftmost match
RECURSIVE SearchDigitRunFrom(_, _)
SearchDigitRunFrom(s, i) ==
  IF i > Len(s) THEN 0
  ELSE IF DigitsEnd(s, i) - i >= 4 THEN i
  ELSE SearchDigitRunFrom(s, i + 1)

\* group 1 of a match that starts at i
Group1(s, i) == SubSeq(s, i, DigitsEnd(s, i) - 1)

None == [found |-> FALSE, digits |-> ""]

Some(d) == [found |-> TRUE, digits |-> d]

\* the extractor trying the bare run of 4 or more digits before the suffixes
extract_amount_fallback_digits_first(text) ==
  LET t == Lower(text)
      k == SearchSuffixFrom(t, 1, "k")
      rb == SearchSuffixFrom(t, 1, "rb")
      ribu == SearchSuffixFrom(t, 1, "ribu")
      jt == SearchSuffixFrom(t, 1, "jt")
      juta == SearchSuffixFrom(t, 1, "juta")
      n == SearchDigitRunFrom(t, 1)
  IN  IF n # 0 THEN Some(TimesPow10(Group1(t, n), 0))
      ELSE IF k # 0 THEN Some(TimesPow10(Group1(t, k), 3))
      ELSE IF rb # 0 THEN Some(TimesPow10(Group1(t, rb), 3))
      ELSE IF ribu # 0 THEN Some(TimesPow10(Group1(t, ribu), 3))
      ELSE IF jt # 0 THEN Some(TimesPow10(Group1(t, jt), 6))
      ELSE IF juta # 0 THEN Some(TimesPow10(Group1(t, juta), 6))
      ELSE None

\* the returned integer is kept as its decimal digits; None is the absent value
extract_amount_fallback(text) ==
  LET t == Lower(text)
      k == SearchSuffixFrom(t, 1, "k")
      rb == SearchSuffixFrom(t, 1, "rb")
      ribu == SearchSuffixFrom(t, 1, "ribu")
      jt == SearchSuffixFrom(t, 1, "jt")
      juta == SearchSuffixFrom(t, 1, "juta")
      dec == SearchDecimalFrom(t, 1)
      n == SearchDigitRunFrom(t, 1)
  IN  IF k # 0 THEN Some(TimesPow10(Group1(t, k), 3))
      ELSE IF rb # 0 THEN Some(TimesPow10(Group1(t, rb), 3))
      ELSE IF ribu # 0 THEN Some(TimesPow10(Group1(t, ribu), 3))
      ELSE IF jt # 0 THEN Some(TimesPow10(Group1(t, jt), 6))
      ELSE IF juta # 0 THEN Some(TimesPow10(Group1(t, juta), 6))
      ELSE IF dec # 0
           THEN LET j == DigitsEnd(t, dec)
                IN  Some(MillionsPlus(Group1(t, dec), Millionths(Group1(t, j + 1))))
      ELSE IF n # 0 THEN Some(TimesPow10(Group1(t, n), 0))
      ELSE None

\* Python truth value of the returned amount: neither None nor 0
Truthy(amt) == amt.found /\ amt.digits # "0"

-----------------------------------------------------------------------------
(* Remote response: JSON values, candidate objects, tokens of the completion *)

\* a field of a candidate object: missing key, null, number (in hundredths)
\* or string
JAbsent == [t |-> "absent", h |-> 0, s |-> ""]

JNull == [t |-> "null", h |-> 0, s |-> ""]

JNum(h) == [t |-> "num", h |-> h, s |-> ""]

JStr(s) == [t |-> "str", h |-> 0, s |-> s]

Candidate(name, amount, category, emotion, sentiment, confidence) ==
  [item_name |-> name, amount |-> amount, category |-> category,
   emotion |-> emotion, sentiment_score |-> sentiment, ai_confidence |-> confidence]

NoObject == Candidate(JAbsent, JAbsent, JAbsent, JAbsent, JAbsent, JAbsent)

\* the completion text as a sequence of tokens: prose without brackets,
\* "[", "]", ",", a flat JSON object, a JSON object with a brace inside, or a
\* JSON scalar
Tok(kind) == [tok |-> kind, obj |-> NoObject]

ObjTok(c) == [tok |-> "obj", obj |-> c]

\* the text of a JSON object that holds a "}" before its end: an object with a
\* nested object, or with a brace inside a string
NestedTok(c) == [tok |-> "nested", obj |-> c]

\* the remote call raises (provider error, timeout, bad credentials)
CallFails == [ok |-> FALSE, null |-> FALSE, content |-> <<>>]

\* the call returns a completion whose content is None
NullCompletion == [ok |-> TRUE, null |-> TRUE, content |-> <<>>]

Completion(toks) == [ok |-> TRUE, null |-> FALSE, content |-> toks]

-----------------------------------------------------------------------------
(* Response parser: parse_ai_response *)

RECURSIVE FirstTok(_, _, _)
FirstTok(toks, i, kind) ==
  IF i > Len(toks) THEN 0
  ELSE IF toks[i].tok = kind THEN i ELSE FirstTok(toks, i + 1, kind)

RECURSIVE LastTok(_, _, _)
LastTok(toks, i, kind) ==
  IF i < 1 THEN 0
  ELSE IF toks[i].tok = kind THEN i ELSE LastTok(toks, i - 1, kind)

IsValueTok(t) == t.tok \in {"obj", "nested", "scalar"}

\* the value json.loads builds from a token: a dict for either kind of object
Loaded(t) == IF t.tok = "nested" THEN [tok |-> "obj", obj |-> t.obj] ELSE t

\* re.search(r'\{[^}]+\}'): the match starts at the leftmost "{" of the text,
\* the first token that is an object, and ends at the first "}" after it
RECURSIVE FirstBrace(_, _)
FirstBrace(toks, i) ==
  IF i > Len(toks) THEN 0
  ELSE IF toks[i].tok \in {"obj", "nested"} THEN i ELSE FirstBrace(toks, i + 1)

\* json.loads accepts the tokens as an array: [ value (, value)* ] or [ ]
IsJsonArray(toks) ==
  /\ Len(toks) >= 2
  /\ toks[1].tok = "[" /\ toks[Len(toks)].tok = "]"
  /\ LET inner == SubSeq(toks, 2, Len(toks) - 1)
     IN  \/ Len(inner) = 0
         \/ /\ Len(inner) % 2 = 1
            /\ \A i \in 1..Len(inner) :
                 IF i % 2 = 1 THEN IsValueTok(inner[i]) ELSE inner[i].tok = ","

\* the elements of an accepted array, in order
RECURSIVE ArrayElements(_, _)
ArrayElements(inner, i) ==
  IF i > Len(inner) THEN <<>>
  ELSE <<Loaded(inner[i])>> \o ArrayElements(inner, i + 2)

parse_ai_response(response_text) ==
  LET a == FirstTok(response_text, 1, "[")
      b == LastTok(response_text, Len(response_text), "]")
      o == FirstBrace(response_text, 1)
  IN  IF a # 0 /\ b > a /\ IsJsonArray(SubSeq(response_text, a, b))
      THEN ArrayElements(SubSeq(response_text, a + 1, b - 1), 1)
      ELSE IF o # 0 /\ response_text[o].tok = "obj" THEN <<response_text[o]>>
      ELSE <<>>

-----------------------------------------------------------------------------
(* Label mapping: map_category / map_emotion *)

category_map(k) ==
  CASE k \in {"makanan & minuman", "makanan", "minuman", "food"} -> "Makanan & Minuman"
    [] k \in {"transport", "transportasi"} -> "Transport"
    [] k \in {"fashion", "pakaian"} -> "Fashion"
    [] k \in {"hiburan", "entertainment"} -> "Hiburan"
    [] k \in {"belanja", "shopping"} -> "Belanja"
    [] k \in {"tagihan", "bill"} -> "Tagihan"
    [] k \in {"lainnya", "other"} -> "Lainnya"
    [] OTHER -> "Lainnya"

map_category(category_str) == category_map(Lower(category_str))

emotion_map(k) ==
  CASE k \in {"marah", "angry", "kesel"} -> "Marah"
    [] k \in {"sedih", "sad", "nyesel"} -> "Sedih"
    [] k \in {"senang", "happy", "bahagia"} -> "Senang"
    [] k \in {"lapar", "hungry"} -> "Lapar"
    [] k \in {"stress", "stressed", "capek"} -> "Stress"
    [] k \in {"netral", "neutral", "biasa"} -> "Netral"
    [] OTHER -> "Netral"

map_emotion(emotion_str) == emotion_map(Lower(emotion_str))

-----------------------------------------------------------------------------
(* Numeric coercion of candidate fields: int(), float(), truth value *)

Raises == [ok |-> FALSE, val |-> 0]

Value(v) == [ok |-> TRUE, val |-> v]

IsDigits(d) == Len(d) > 0 /\ \A i \in 1..Len(d) : Ch(d, i) \in DigitChars

\* the text after an optional sign
Unsigned(t) == IF Len(t) > 0 /\ Ch(t, 1) \in {"-", "+"} THEN SubSeq(t, 2, Len(t)) ELSE t

Signed(t, n) == IF Len(t) > 0 /\ Ch(t, 1) = "-" THEN 0 - n ELSE n

\* int(str): optional blanks, optional sign, decimal digits
IntOfStr(str) ==
  LET t == Strip(str)
      u == Unsigned(t)
  IN  IF IsDigits(u) THEN Value(Signed(t, ToInt(u))) ELSE Raises

\* float(str), in hundredths: digits with an optional fraction part
FloatOfStr(str) ==
  LET t == Strip(str)
      u == Unsigned(t)
      dot == CHOOSE i \in 1..(Len(u) + 1) :
               (i <= Len(u) /\ Ch(u, i) = ".") \/ i = Len(u) + 1
      whole == SubSeq(u, 1, dot - 1)
      frac == IF dot >= Len(u) THEN "" ELSE SubSeq(u, dot + 1, Len(u))
  IN  IF Len(u) > 0 /\ (whole = "" \/ IsDigits(whole)) /\ (frac = "" \/ IsDigits(frac))
         /\ (whole # "" \/ frac # "")
      THEN Value(Signed(t, 100 * ToInt(whole)
                           + ToInt(SubSeq(frac \o "00", 1, 2))))
      ELSE Raises

\* int(x) of a number in hundredths truncates toward zero
Trunc(h) == IF h >= 0 THEN h \div 100 ELSE 0 - ((0 - h) \div 100)

\* int(v) of a field value
IntOf(v) ==
  CASE v.t = "num" -> Value(Trunc(v.h))
    [] v.t = "str" -> IntOfStr(v.s)
    [] OTHER -> Raises

\* float(v) of a field value
FloatOf(v) ==
  CASE v.t = "num" -> Value(v.h)
    [] v.t = "str" -> FloatOfStr(v.s)
    [] OTHER -> Raises

\* item.get(key, default)
Get(v, default) == IF v.t = "absent" THEN default ELSE v

\* `not v`
Falsy(v) ==
  \/ v.t = "null"
  \/ v.t = "num" /\ v.h = 0
  \/ v.t = "str" /\ v.s = ""

-----------------------------------------------------------------------------
(* ExpenseExtraction and the validation of one candidate *)

ExpenseExtraction(name, amount, category, emotion, sentiment, confidence) ==
  [item_name |-> name, amount |-> amount, category |-> category,
   emotion |-> emotion, sentiment_score |-> sentiment, ai_confidence |-> confidence]

\* the closed label sets of the data model
EmotionLabel == {"Marah", "Sedih", "Senang", "Lapar", "Stress", "Netral"}

ExpenseCategory ==
  {"Makanan & Minuman", "Transport", "Fashion", "Hiburan", "Belanja", "Tagihan",
   "Lainnya"}

\* Field constraints of the pydantic model: amount ge=0, sentiment_score in
\* [-1.0, 1.0], ai_confidence in [0.0, 1.0] (hundredths)
ModelAccepts(amount, sentiment, confidence) ==
  /\ amount >= 0
  /\ sentiment >= -100 /\ sentiment <= 100
  /\ confidence >= 0 /\ confidence <= 100

Skipped == [kind |-> "skip", e |-> ExpenseExtraction("", 0, "", "", 0, 0)]

ItemRaises == [kind |-> "raise", e |-> ExpenseExtraction("", 0, "", "", 0, 0)]

Appended(e) == [kind |-> "ok", e |-> e]

\* the validation with an override that replaces the emotion label only and
\* keeps the candidate's own sentiment score
validate_item_keeps_sentiment(item, detected) ==
  IF item.tok # "obj" THEN ItemRaises
  ELSE
  LET c == item.obj
      amount == Get(c.amount, JNum(0))
      emotion == Get(c.emotion, JStr("Netral"))
      name == Get(c.item_name, JStr("Unknown Item"))
      category == Get(c.category, JStr("Lainnya"))
  IN  IF Falsy(amount) THEN Skipped
      ELSE IF emotion.t # "str" THEN ItemRaises
      ELSE
      LET ai_emotion == map_emotion(emotion.s)
          override == ai_emotion = "Netral" /\ detected.emotion # "Netral"
          final_emotion == IF override THEN detected.emotion ELSE ai_emotion
          final_sentiment == FloatOf(Get(c.sentiment_score, JNum(0)))
          int_amount == IntOf(amount)
          confidence == FloatOf(Get(c.ai_confidence, JNum(70)))
      IN  IF /\ final_sentiment.ok /\ int_amount.ok /\ confidence.ok
             /\ name.t = "str" /\ category.t = "str"
             /\ ModelAccepts(int_amount.val, final_sentiment.val, confidence.val)
          THEN Appended(ExpenseExtraction(name.s, int_amount.val,
                                          map_category(category.s), final_emotion,
                                          final_sentiment.val, confidence.val))
          ELSE ItemRaises

\* one round of the loop over parsed_items: the candidate is skipped, appended,
\* or an exception leaves the try block
validate_item(item, detected) ==
  IF item.tok # "obj" THEN ItemRaises
  ELSE
  LET c == item.obj
      amount == Get(c.amount, JNum(0))
      emotion == Get(c.emotion, JStr("Netral"))
      name == Get(c.item_name, JStr("Unknown Item"))
      category == Get(c.category, JStr("Lainnya"))
  IN  IF Falsy(amount) THEN Skipped
      ELSE IF emotion.t # "str" THEN ItemRaises
      ELSE
      LET ai_emotion == map_emotion(emotion.s)
          override == ai_emotion = "Netral" /\ detected.emotion # "Netral"
          final_emotion == IF override THEN detected.emotion ELSE ai_emotion
          final_sentiment == IF override THEN Value(detected.sentiment)
                             ELSE FloatOf(Get(c.sentiment_score, JNum(0)))
          int_amount == IntOf(amount)
          confidence == FloatOf(Get(c.ai_confidence, JNum(70)))
      IN  IF /\ final_sentiment.ok /\ int_amount.ok /\ confidence.ok
             /\ name.t = "str" /\ category.t = "str"
             /\ ModelAccepts(int_amount.val, final_sentiment.val, confidence.val)
          THEN Appended(ExpenseExtraction(name.s, int_amount.val,
                                          map_category(category.s), final_emotion,
                                          final_sentiment.val, confidence.val))
          ELSE ItemRaises

RECURSIVE validate_items(_, _, _)
\* the loop leaving at the first candidate without an amount (break in place
\* of continue)
validate_items_break(items, i, detected) ==
  IF i > Len(items) THEN <<>>
  ELSE LET o == validate_item(items[i], detected)
       IN  IF o.kind = "skip" THEN <<>>
           ELSE (IF o.kind = "ok" THEN <<o.e>> ELSE <<>>)
                  \o validate_items(items, i + 1, detected)

\* the loop over parsed_items: the extractions appended, in order
validate_items(items, i, detected) ==
  IF i > Len(items) THEN <<>>
  ELSE LET o == validate_item(items[i], detected)
       IN  (IF o.kind = "ok" THEN <<o.e>> ELSE <<>>) \o validate_items(items, i + 1, detected)

AnyItemRaises(items, detected) ==
  \E i \in 1..Len(items) :
    /\ validate_item(items[i], detected).kind = "raise"

-----------------------------------------------------------------------------
(* extract_multiple_expenses *)

\* the user content of the remote call
remote_payload_raw(user_message) == user_message

remote_payload(user_message) == normalize_amount_string(user_message)

\* result of the `if not parsed_items` branch
empty_parse_fallback(user_message) ==
  LET fallback_amt == extract_amount_fallback(user_message)
  IN  IF Truthy(fallback_amt)
      THEN <<ExpenseExtraction("Pengeluaran", ToInt(fallback_amt.digits),
                               "Lainnya", "Netral", 0, 40)>>
      ELSE <<>>

except_fallback_not_none(user_message) ==
  LET fallback_amount == extract_amount_fallback(user_message)
      detected == detect_emotion_from_text(user_message)
  IN  IF fallback_amount.found
      THEN <<ExpenseExtraction("Item tidak terdeteksi", ToInt(fallback_amount.digits),
                               "Lainnya", detected.emotion, detected.sentiment, 30)>>
      ELSE <<>>

\* result of the `except Exception` handler
except_fallback(user_message) ==
  LET fallback_amount == extract_amount_fallback(user_message)
      detected == detect_emotion_from_text(user_message)
  IN  IF Truthy(fallback_amount)
      THEN <<ExpenseExtraction("Item tidak terdeteksi", ToInt(fallback_amount.digits),
                               "Lainnya", detected.emotion, detected.sentiment, 30)>>
      ELSE <<>>

NoResponse == [ok |-> FALSE, null |-> TRUE, content |-> <<>>]

\* gate, normalizer and the sending of the remote call
extract_call ==
  /\ pc = "start"
  /\ IF ~has_expense_pattern(msg)
     THEN /\ result' = <<>>
          /\ path' = "gate_reject"
          /\ calls' = <<"has_expense_pattern">>
          /\ pc' = "done"
          /\ UNCHANGED payload
     ELSE /\ payload' = remote_payload(msg)
          /\ calls' = <<"has_expense_pattern", "normalize_amount_string", "remote">>
          /\ pc' = "awaiting"
          /\ UNCHANGED <<result, path>>
  /\ UNCHANGED <<msg, response, raised, fn, ret>>
  /\ UNCHANGED <<scanVars, chatVars, concVars>>

-----------------------------------------------------------------------------
(* Inputs *)

\* messages of the specification and of the system prompt, and short variants
ExampleTexts ==
  {"abis beli ayam 12000 anjing", "beli ayam 12k anjing mahal bgt",
   "beli kopi 25k", "beli kopi", "beli 0k", "hai", "halo bro", "hai 50k",
   "50k", "25k", "25K", "2jt", "2.5jt", "2.0157jt", "5k rb", "mahal banget",
   " 5k ", "5k jt", "5k k", "1500.5k jt", "5k 1500"}

Pieces == {"5", "25", "0", "1500", "k", "K", "rb", "ribu", "jt", "juta",
           " ", ".", "hai", "beli"}

RECURSIVE PieceTexts(_)
PieceTexts(n) ==
  IF n = 0 THEN {""}
  ELSE LET T == PieceTexts(n - 1) IN T \cup {t \o p : t \in T, p \in Pieces}

\* messages with words of one or several emotion vocabularies
EmotionTexts ==
  {"capek lembur hore", "sedih anjing", "laper seneng", "lapar", "senang banget",
   "stres rugi", "puas tapi capek", "LAPER sialan", "spesial", "hore laper",
   "boros tapi worth", "makan siang"}

Texts == ExampleTexts \cup EmotionTexts \cup PieceTexts(MaxPieces)

Messages == ExampleTexts

Kopi ==
  Candidate(JStr("Kopi"), JNum(2500000), JStr("Makanan & Minuman"),
            JStr("Netral"), JNum(0), JNum(95))

Ayam ==
  Candidate(JStr("Ayam"), JNum(1200000), JStr("MAKANAN"),
            JStr("Marah"), JNum(-60), JNum(92))

\* candidates with an absent, null, zero, fractional, string, empty, unknown,
\* out-of-range or unusable field
CandidateItems ==
  {Kopi, Ayam,
   Candidate(JStr("Teh"), JNum(0), JStr("minuman"), JStr("Netral"), JNum(0), JNum(90)),
   Candidate(JStr("Parkir"), JAbsent, JAbsent, JAbsent, JAbsent, JAbsent),
   Candidate(JAbsent, JNum(3500000), JAbsent, JAbsent, JAbsent, JAbsent),
   Candidate(JStr("Permen"), JNum(50), JStr("food"), JStr("Senang"), JNum(70), JNum(80)),
   Candidate(JStr("Bensin"), JStr("25000"), JStr("Transport"), JStr("Stress"),
             JStr("-0.4"), JNum(90)),
   Candidate(JStr("Baju"), JStr("dua puluh"), JStr("Fashion"), JStr("Senang"),
             JNum(70), JNum(90)),
   Candidate(JStr("Pulsa"), JNum(5000000), JStr("Tagihan"), JStr("Sedih"),
             JStr("rendah"), JNum(90)),
   Candidate(JStr("Tiket"), JNum(4000000), JStr("Hiburan"), JStr("Senang"), JNum(70),
             JStr("tinggi")),
   Candidate(JStr("Obat"), JNum(1500000), JStr("Kesehatan"), JStr("Bingung"),
             JNum(-20), JNum(80)),
   Candidate(JStr("Sabun"), JNum(800000), JNull, JStr("Senang"), JNum(70), JNum(80)),
   Candidate(JStr("Roti"), JNum(900000), JStr("Makanan"), JNull, JNum(0), JNum(80)),
   Candidate(JStr(""), JNum(2500000), JStr("Makanan & Minuman"), JStr("Netral"),
             JNum(0), JNum(95)),
   Candidate(JStr("Es"), JNum(500000), JStr("Minuman"), JStr("Senang"), JNum(70),
             JNum(150))}

RECURSIVE CandidateLists(_)
CandidateLists(n) ==
  IF n = 0 THEN {<<>>}
  ELSE LET L == CandidateLists(n - 1)
       IN  L \cup {Append(l, c) : l \in L, c \in CandidateItems}

\* the tokens of the JSON array of the candidates
RECURSIVE ArrayBody(_, _)
ArrayBody(items, i) ==
  IF i > Len(items) THEN <<>>
  ELSE (IF i > 1 THEN <<Tok(",")>> ELSE <<>>) \o <<ObjTok(items[i])>>
         \o ArrayBody(items, i + 1)

ArrayText(items) == <<Tok("[")>> \o ArrayBody(items, 1) \o <<Tok("]")>>

\* completions: a JSON array alone, prose alone, prose around an array, a bare
\* object, an array of scalars, prose with brackets of its own before or after
\* an array, two bare objects, an object with a nested brace
Completions ==
  {Completion(ArrayText(l)) : l \in CandidateLists(MaxItems)}
    \cup {Completion(<<Tok("prose")>>),
          Completion(<<>>),
          Completion(<<Tok("prose")>> \o ArrayText(<<Kopi>>)),
          Completion(<<Tok("prose"), ObjTok(Kopi)>>),
          Completion(<<Tok("["), Tok("scalar"), Tok("]")>>),
          Completion(<<Tok("prose")>> \o ArrayText(<<Kopi, Ayam>>) \o <<Tok("prose")>>),
          Completion(<<Tok("["), Tok("prose"), Tok("]")>> \o ArrayText(<<Kopi, Ayam>>)),
          Completion(ArrayText(<<Kopi, Ayam>>) \o <<Tok("prose"), Tok("]")>>),
          Completion(<<Tok("prose"), ObjTok(Kopi), Tok("prose"), ObjTok(Ayam)>>),
          Completion(<<NestedTok(Kopi)>>),
          Completion(<<Tok("["), NestedTok(Kopi), Tok(","), ObjTok(Ayam), Tok("]")>>)}

Responses == {NullCompletion} \cup Completions

-----------------------------------------------------------------------------
(* The rest of extract_multiple_expenses *)

\* after_remote_call without the except handler: an exception raised at the
\* call or inside the try block reaches the caller
after_remote_call_unhandled(user_message, r) ==
  LET parsed_items == parse_ai_response(r.content)
      detected == detect_emotion_from_text(user_message)
      propagates == [raised |-> TRUE, result |-> <<>>, path |-> "raised",
                     calls |-> <<>>]
  IN  IF ~r.ok THEN propagates
      ELSE IF r.null THEN propagates
      ELSE IF Len(parsed_items) = 0
      THEN [raised |-> FALSE, result |-> empty_parse_fallback(user_message),
            path |-> "empty_parse",
            calls |-> <<"parse_ai_response", "extract_amount_fallback">>]
      ELSE IF AnyItemRaises(parsed_items, detected) THEN propagates
      ELSE [raised |-> FALSE, result |-> validate_items(parsed_items, 1, detected),
            path |-> "validated", calls |-> <<"parse_ai_response">>]

\* lines 337-411 for the outcome r of the remote call: the try block runs to
\* its return, or an exception raised at the call or inside the block is
\* handled by the except handler
after_remote_call(user_message, r) ==
  LET parsed_items == parse_ai_response(r.content)
      detected == detect_emotion_from_text(user_message)
  IN  IF ~r.ok
      THEN [raised |-> FALSE, result |-> except_fallback(user_message),
            path |-> "except", calls |-> <<"extract_amount_fallback">>]
      ELSE IF r.null
      THEN [raised |-> FALSE, result |-> except_fallback(user_message),
            path |-> "except", calls |-> <<"extract_amount_fallback">>]
      ELSE IF Len(parsed_items) = 0
      THEN [raised |-> FALSE, result |-> empty_parse_fallback(user_message),
            path |-> "empty_parse",
            calls |-> <<"parse_ai_response", "extract_amount_fallback">>]
      ELSE IF AnyItemRaises(parsed_items, detected)
      THEN [raised |-> FALSE, result |-> except_fallback(user_message),
            path |-> "except",
            calls |-> <<"parse_ai_response", "extract_amount_fallback">>]
      ELSE [raised |-> FALSE, result |-> validate_items(parsed_items, 1, detected),
            path |-> "validated", calls |-> <<"parse_ai_response">>]

\* extract_multiple_expenses for a message and the outcome r of its remote
\* call (r is not looked at when the gate rejects the message)
extract_multiple_expenses(user_message, r) ==
  IF ~has_expense_pattern(user_message) THEN <<>>
  ELSE after_remote_call(user_message, r).result

\* the remote call returns r
remote_returns ==
  /\ pc = "awaiting"
  /\ \E r \in Responses :
       /\ response' = r
       /\ LET out == after_remote_call(msg, r)
          IN  /\ result' = out.result
              /\ raised' = out.raised
              /\ path' = out.path
              /\ calls' = calls \o out.calls
  /\ pc' = "done"
  /\ UNCHANGED <<msg, payload, fn, ret>>
  /\ UNCHANGED <<scanVars, chatVars, concVars>>

\* the remote call raises: the except handler builds the result
remote_raises ==
  /\ pc = "awaiting"
  /\ response' = CallFails
  /\ result' = except_fallback(msg)
  /\ path' = "except"
  /\ calls' = calls \o <<"extract_amount_fallback">>
  /\ pc' = "done"
  /\ UNCHANGED <<msg, payload, raised, fn, ret>>
  /\ UNCHANGED <<scanVars, chatVars, concVars>>

\* the receipt parser, the chat route and the concurrent invocations at rest
ScanIdle ==
  /\ ocr_text = ""
  /\ scan_pc = "none"
  /\ scan_response = NoResponse
  /\ receipt_data = [store_name |-> "Unknown Store", total_amount |-> 0,
                     date |-> JNull, items |-> <<>>, raw_text |-> ""]
  /\ scan_calls = 0

ChatIdle ==
  /\ chat_pc = "none"
  /\ extractions = <<>>
  /\ next_extraction = 1
  /\ saved_expenses = <<>>
  /\ expenses = <<>>
  /\ chat_out = <<>>

ConcIdle ==
  /\ inv = <<>>
  /\ groq_client = "Groq"

AccountantIdle ==
  /\ msg = ""
  /\ pc = "none"
  /\ payload = ""
  /\ response = NoResponse
  /\ result = <<>>
  /\ raised = FALSE
  /\ path = "none"
  /\ calls = <<>>
  /\ fn = "none"
  /\ ret = ""

Init ==
  /\ msg \in Messages
  /\ pc = "start"
  /\ payload = ""
  /\ response = NoResponse
  /\ result = <<>>
  /\ raised = FALSE
  /\ path = "none"
  /\ calls = <<>>
  /\ fn = "none"
  /\ ret = ""
  /\ ScanIdle /\ ChatIdle /\ ConcIdle

Next == extract_call \/ remote_raises \/ remote_returns

Spec == Init /\ [][Next]_vars

-----------------------------------------------------------------------------
(* The pure functions applied to a text on their own *)

apply_has_expense_pattern ==
  /\ fn = "none"
  /\ fn' = "has_expense_pattern"
  /\ ret' = IF has_expense_pattern(msg) THEN "True" ELSE "False"
  /\ UNCHANGED <<msg, pc, payload, response, result, raised, path, calls>>
  /\ UNCHANGED <<scanVars, chatVars, concVars>>

apply_normalize_amount_string ==
  /\ fn = "none"
  /\ fn' = "normalize_amount_string"
  /\ ret' = normalize_amount_string(msg)
  /\ UNCHANGED <<msg, pc, payload, response, result, raised, path, calls>>
  /\ UNCHANGED <<scanVars, chatVars, concVars>>

apply_detect_emotion_from_text ==
  /\ fn = "none"
  /\ fn' = "detect_emotion_from_text"
  /\ ret' = detect_emotion_from_text(msg)
  /\ UNCHANGED <<msg, pc, payload, response, result, raised, path, calls>>
  /\ UNCHANGED <<scanVars, chatVars, concVars>>

apply_extract_amount_fallback ==
  /\ fn = "none"
  /\ fn' = "extract_amount_fallback"
  /\ ret' = extract_amount_fallback(msg)
  /\ UNCHANGED <<msg, pc, payload, response, result, raised, path, calls>>
  /\ UNCHANGED <<scanVars, chatVars, concVars>>

\* the normalizer applied to its own output
apply_normalize_amount_string_twice ==
  /\ fn = "none"
  /\ fn' = "normalize_amount_string_twice"
  /\ ret' = normalize_amount_string(normalize_amount_string(msg))
  /\ UNCHANGED <<msg, pc, payload, response, result, raised, path, calls>>
  /\ UNCHANGED <<scanVars, chatVars, concVars>>

InitFn ==
  /\ msg \in Texts
  /\ pc = "none"
  /\ payload = ""
  /\ response = NoResponse
  /\ result = <<>>
  /\ raised = FALSE
  /\ path = "none"
  /\ calls = <<>>
  /\ fn = "none"
  /\ ret = ""
  /\ ScanIdle /\ ChatIdle /\ ConcIdle

NextFn ==
  \/ apply_has_expense_pattern
  \/ apply_normalize_amount_string
  \/ apply_normalize_amount_string_twice
  \/ apply_detect_emotion_from_text
  \/ apply_extract_amount_fallback

SpecFn == InitFn /\ [][NextFn]_vars

-----------------------------------------------------------------------------
(* Properties of extract_multiple_expenses (specification Spec) *)

Range(f) == {f[i] : i \in 1..Len(f)}

Returned == pc = "done"

\* the candidate list the parser recovered from the response
ParsedItems == parse_ai_response(response.content)

Detected == detect_emotion_from_text(msg)

Uncoercible(item) ==
  /\ item.tok = "obj"
  /\ ~Falsy(Get(item.obj.amount, JNum(0)))
  /\ \/ ~IntOf(Get(item.obj.amount, JNum(0))).ok
     \/ ~FloatOf(Get(item.obj.sentiment_score, JNum(0))).ok
     \/ ~FloatOf(Get(item.obj.ai_confidence, JNum(70))).ok

\* C2: when one candidate of the parsed list has an amount, sentiment_score or
\* ai_confidence that is not a number, only that candidate is skipped: every
\* other candidate with a usable non-zero amount is in the output, and the
\* batch is not replaced by the fallback result.
C2_BadCandidateSkippedAlone ==
  (Returned /\ response.ok /\ ~response.null
     /\ \E i \in 1..Len(ParsedItems) : Uncoercible(ParsedItems[i])) =>
    /\ path = "validated"
    /\ \A j \in 1..Len(ParsedItems) :
         LET o == validate_item(ParsedItems[j], Detected)
         IN  o.kind = "ok" => o.e \in Range(result)

\* C3: every extraction returned, on every path, has amount > 0.
C3_ReturnedAmountsPositive ==
  Returned => \A i \in 1..Len(result) : result[i].amount > 0

\* no candidate of the parsed list became an extraction
NothingValidated ==
  \A i \in 1..Len(ParsedItems) : validate_item(ParsedItems[i], Detected).kind = "skip"

\* C4: when the call succeeds but the parser/validator yields no validated
\* extraction (nothing parseable, an empty array, or every candidate
\* discarded), the fallback extractor runs on the raw message and one
\* low-confidence extraction is returned if it finds an amount.
C4_EmptyValidationRunsFallback ==
  (Returned /\ response.ok /\ ~response.null /\ NothingValidated) =>
    /\ "extract_amount_fallback" \in Range(calls)
    /\ Truthy(extract_amount_fallback(msg)) =>
         /\ Len(result) = 1
         /\ result[1].ai_confidence <= 40

\* C5: an extraction built from the fallback extractor (after a call failure or
\* an empty parse) is the only one returned, carries the emotion and sentiment
\* of detect_emotion_from_text(raw message), has ai_confidence at most 0.4 and
\* an item name that marks the item as not identified.
C5_FallbackExtractionLabelled ==
  (Returned /\ path \in {"except", "empty_parse"} /\ Len(result) > 0) =>
    /\ Len(result) = 1
    /\ result[1].emotion = Detected.emotion
    /\ result[1].sentiment_score = Detected.sentiment
    /\ result[1].ai_confidence <= 40
    /\ result[1].item_name \in {"Item tidak terdeteksi", "Pengeluaran"}

\* C6: if the gate rejects the message the result is the empty list and neither
\* the remote call nor the fallback extractor is invoked; a remote call is only
\* made after the gate accepted and the normalizer ran, and its user payload is
\* the normalized text.
C6_GateBeforeRemoteCall ==
  /\ (Returned /\ ~has_expense_pattern(msg)) =>
       /\ result = <<>>
       /\ "remote" \notin Range(calls)
       /\ "extract_amount_fallback" \notin Range(calls)
  /\ (pc = "awaiting" \/ response.ok \/ response = CallFails
        \/ "remote" \in Range(calls)) =>
       /\ has_expense_pattern(msg)
       /\ SubSeq(calls, 1, 3) = <<"has_expense_pattern", "normalize_amount_string", "remote">>
       /\ payload = normalize_amount_string(msg)

\* a message of 5 or more characters was rejected by the gate, and returned
C6_Witness ==
  /\ Returned /\ path = "gate_reject"
  /\ msg = "halo bro" /\ result = <<>> /\ calls = <<"has_expense_pattern">>

-----------------------------------------------------------------------------
(* Properties of the gate and the normalizer (specification SpecFn) *)

\* C7: for every message whose trimmed length is at least 5, has_expense_pattern
\* accepts if and only if the message contains a monetary indicator, whether or
\* not a casual pattern matches.
C7_GateIsMoneyIndicator ==
  (fn = "has_expense_pattern" /\ Len(Strip(msg)) >= 5) =>
    (ret = "True" <=> has_money_indicator(msg))

\* a greeting followed by an amount was accepted
C7_Witness ==
  /\ fn = "has_expense_pattern" /\ msg = "hai 50k" /\ ret = "True"
  /\ casual_patterns(Strip(Lower(msg)))

\* C8: has_expense_pattern returns False for every message whose trimmed length
\* is under 5 characters, whatever it contains.
C8_ShortMessageRejected ==
  (fn = "has_expense_pattern" /\ Len(Strip(msg)) < 5) => ret = "False"

\* a bare amount of 3 characters was rejected
C8_Witness ==
  /\ fn = "has_expense_pattern" /\ msg = "50k" /\ ret = "False"
  /\ has_money_indicator(msg)

\* the text with every <n> k|rb|ribu occurrence replaced, in one pass from
\* position i, by the digits of n * 1000
RECURSIVE ThousandsReplaced(_, _)
ThousandsReplaced(s, i) ==
  IF i > Len(s) THEN ""
  ELSE LET hits == {suf \in {"k", "rb", "ribu"} : SuffixMatchEnd(s, i, suf, TRUE) # 0}
       IN  IF hits # {}
           THEN LET suf == CHOOSE x \in hits : TRUE
                IN  TimesPow10(Group1(s, i), 3)
                      \o ThousandsReplaced(s, SuffixMatchEnd(s, i, suf, TRUE))
           ELSE Ch(s, i) \o ThousandsReplaced(s, i + 1)

\* C9: every occurrence of an integer n followed by optional whitespace and the
\* suffix k, rb or ribu (any case, at a word boundary) is replaced in the output
\* by the decimal digits of n * 1000.  Stated for the texts without a million
\* suffix, where nothing else is rewritten.
C9_ThousandSuffixRewritten ==
  (fn = "normalize_amount_string" /\ ~Contains(Lower(msg), "j")) =>
    ret = ThousandsReplaced(Lower(msg), 1)

\* round(0.<d> * 1000000) for the fraction digits d (round half to even)
RoundMillionths(d) ==
  IF Len(d) <= 6 THEN Millionths(d)
  ELSE LET seventh == DigitVal(Ch(d, 7))
           rest == StripZeros(SubSeq(d \o "0", 8, Len(d) + 1))
           up == \/ seventh > 5
                 \/ seventh = 5 /\ (rest # "" \/ Millionths(d) % 2 = 1)
       IN  IF up THEN Millionths(d) + 1 ELSE Millionths(d)

\* the text is one <int>[.,]<frac> jt|juta expression
IsDecimalMillion(s) ==
  \E suf \in {"jt", "juta"} : DecimalMatchEnd(s, 1, suf) = Len(s) + 1

\* the text is one <int> jt|juta expression
IsIntegerMillion(s) ==
  \E suf \in {"jt", "juta"} : SuffixMatchEnd(s, 1, suf, TRUE) = Len(s) + 1

\* C10: a decimal-million expression <int>.<frac> jt|juta is rewritten to the
\* digits of int * 1000000 + round(0.<frac> * 1000000), and an integer-million
\* expression <int> jt|juta to the digits of int * 1000000.
C10_MillionRewritten ==
  fn = "normalize_amount_string" =>
    LET s == Lower(msg)
        j == DigitsEnd(s, 1)
    IN  /\ IsDecimalMillion(s) =>
             ret = MillionsPlus(Group1(s, 1), RoundMillionths(Group1(s, j + 1)))
        /\ IsIntegerMillion(s) => ret = TimesPow10(Group1(s, 1), 6)

\* the text rewritten in one pass from position i: at each position the most
\* specific rule that matches there (decimal-million, integer-million, thousand)
\* rewrites its expression, and the scan goes on after the expression
RECURSIVE RewrittenOnce(_, _)
RewrittenOnce(s, i) ==
  IF i > Len(s) THEN ""
  ELSE LET dec == {suf \in {"jt", "juta"} : DecimalMatchEnd(s, i, suf) # 0}
           mil == {suf \in {"jt", "juta"} : SuffixMatchEnd(s, i, suf, TRUE) # 0}
           tho == {suf \in {"k", "rb", "ribu"} : SuffixMatchEnd(s, i, suf, TRUE) # 0}
           j == DigitsEnd(s, i)
       IN  IF dec # {}
           THEN replace_million_decimal(Group1(s, i), Group1(s, j + 1))
                  \o RewrittenOnce(s, DecimalMatchEnd(s, i, CHOOSE x \in dec : TRUE))
           ELSE IF mil # {}
           THEN TimesPow10(Group1(s, i), 6)
                  \o RewrittenOnce(s, SuffixMatchEnd(s, i, CHOOSE x \in mil : TRUE, TRUE))
           ELSE IF tho # {}
           THEN TimesPow10(Group1(s, i), 3)
                  \o RewrittenOnce(s, SuffixMatchEnd(s, i, CHOOSE x \in tho : TRUE, TRUE))
           ELSE Ch(s, i) \o RewrittenOnce(s, i + 1)

\* C11: the rules are applied most-specific-suffix-first and the digits written
\* by one rule are never matched and rewritten again by a later rule: each
\* shorthand expression of the input is rewritten exactly once, non-overlapping.
C11_EachExpressionRewrittenOnce ==
  fn = "normalize_amount_string" => ret = RewrittenOnce(Lower(msg), 1)

\* some amount expression (digits, optional whitespace, a magnitude suffix at a
\* word boundary, or a decimal million) is left in s
HasAmountExpression(s) ==
  \E i \in 1..Len(s) :
     \/ \E suf \in {"k", "rb", "ribu", "jt", "juta"} : SuffixMatchEnd(s, i, suf, TRUE) # 0
     \/ \E suf \in {"jt", "juta"} : DecimalMatchEnd(s, i, suf) # 0

\* C12 (as stated): for every text t, normalizing the normalized text gives the
\* normalized text again.
C12_Idempotent ==
  fn = "normalize_amount_string_twice" => ret = normalize_amount_string(msg)

\* C12 (amended): when the normalized text holds no amount expression with a
\* suffix any more, normalizing it again changes nothing.
C12_IdempotentOnNormalized ==
  (fn = "normalize_amount_string_twice"
     /\ ~HasAmountExpression(normalize_amount_string(msg)))
  => ret = normalize_amount_string(msg)

C12_Witness ==
  /\ fn = "normalize_amount_string_twice"
  /\ msg = "25k"
  /\ ret = "25000"
  /\ ~HasAmountExpression(ret)

\* a bare number at i: a whole run of 4 or more digits that is part of no amount
\* expression (no suffix after it, not the whole part of a decimal million)
BareRunAt(s, i) ==
  /\ IsDigitAt(s, i)
  /\ ~IsDigitAt(s, i - 1)
  /\ DigitsEnd(s, i) - i >= 4
  /\ \A suf \in {"k", "rb", "ribu", "jt", "juta"} : SuffixMatchEnd(s, i, suf, TRUE) = 0
  /\ \A suf \in {"jt", "juta"} : DecimalMatchEnd(s, i, suf) = 0

\* the run of digits that starts at i stands unchanged in out, as a whole run,
\* before the normalized rest of the text
RunKept(s, i, out) ==
  LET j == DigitsEnd(s, i)
      run == SubSeq(s, i, j - 1)
      rest == normalize_amount_string(SubSeq(s, j, Len(s)))
      k == Len(out) - Len(rest) - Len(run)
  IN  /\ k >= 0
      /\ SubSeq(out, k + 1, Len(out)) = run \o rest
      /\ ~IsDigitAt(out, k)

\* C13: every bare run of 4 or more digits that is not followed by a magnitude
\* suffix stands unchanged in the normalized text.
C13_BareDigitsUnchanged ==
  fn = "normalize_amount_string"
  => \A i \in 1..Len(msg) : BareRunAt(Lower(msg), i) => RunKept(Lower(msg), i, ret)

\* the emotion vocabularies in priority order, each with its pair
EmotionPriority ==
  << [words |-> anger_words,  pair |-> [emotion |-> "Marah",  sentiment |-> -60]],
     [words |-> sad_words,    pair |-> [emotion |-> "Sedih",  sentiment |-> -50]],
     [words |-> stress_words, pair |-> [emotion |-> "Stress", sentiment |-> -40]],
     [words |-> happy_words,  pair |-> [emotion |-> "Senang", sentiment |-> 70]],
     [words |-> hunger_words, pair |-> [emotion |-> "Lapar",  sentiment |-> 10]] >>

\* the vocabularies of which some word occurs in the lowercased text
Occurring(text) ==
  {k \in 1..Len(EmotionPriority) : ContainsAny(Lower(text), EmotionPriority[k].words)}

\* C14: the detector returns the pair of the first vocabulary, in the order
\* anger, sadness, stress, happiness, hunger, of which a word occurs in the
\* text, and (Netral, 0.0) when no vocabulary word occurs.
C14_FirstMatchingVocabulary ==
  fn = "detect_emotion_from_text"
  => IF Occurring(msg) = {}
     THEN ret = [emotion |-> "Netral", sentiment |-> 0]
     ELSE \E k \in Occurring(msg) :
             /\ \A l \in Occurring(msg) : k <= l
             /\ ret = EmotionPriority[k].pair

C14_Witness ==
  /\ fn = "detect_emotion_from_text"
  /\ msg = "capek lembur hore"
  /\ Occurring(msg) = {3, 4}
  /\ ret = [emotion |-> "Stress", sentiment |-> -40]

\* the candidate is carried on by the validation loop: its amount is not falsy
IsKept(item) == item.tok = "obj" /\ ~Falsy(Get(item.obj.amount, JNum(0)))

\* the emotion label the candidate's own emotion field maps to
OwnEmotion(c) == map_emotion(Get(c.emotion, JStr("Netral")).s)

\* the candidate's own sentiment score in hundredths, 0.0 when the field is absent
OwnSentiment(c) ==
  IF c.sentiment_score = JAbsent THEN 0 ELSE FloatOf(c.sentiment_score).val

\* C15: on the validated path, an extraction whose candidate maps to Netral
\* while the detector found another emotion carries the detector's emotion and
\* sentiment; every other extraction carries its candidate's own mapped emotion
\* and own sentiment score, 0.0 when the score is absent.
C15_DetectorOverridesNeutralOnly ==
  (Returned /\ path = "validated")
  => LET kept == SelectSeq(ParsedItems, IsKept)
     IN  /\ Len(result) = Len(kept)
         /\ \A k \in 1..Len(kept) :
               IF OwnEmotion(kept[k].obj) = "Netral" /\ Detected.emotion # "Netral"
               THEN /\ result[k].emotion = Detected.emotion
                    /\ result[k].sentiment_score = Detected.sentiment
               ELSE /\ result[k].emotion = OwnEmotion(kept[k].obj)
                    /\ result[k].sentiment_score = OwnSentiment(kept[k].obj)

C15_Witness ==
  /\ Returned
  /\ path = "validated"
  /\ Detected = [emotion |-> "Marah", sentiment |-> -60]
  /\ Len(ParsedItems) = 2
  /\ ParsedItems[1] = ObjTok(Kopi)
  /\ OwnEmotion(ParsedItems[2].obj) = "Senang"
  /\ Len(result) = 2
  /\ result[1].emotion = "Marah" /\ result[1].sentiment_score = -60
  /\ result[2].emotion = "Senang" /\ result[2].sentiment_score = 70

\* the fields of the candidate other than its two labels are usable: a string
\* name, numbers that convert, values the data model accepts
OtherFieldsUsable(c) ==
  LET amount == IntOf(Get(c.amount, JNum(0)))
      sentiment == FloatOf(Get(c.sentiment_score, JNum(0)))
      confidence == FloatOf(Get(c.ai_confidence, JNum(70)))
  IN  /\ Get(c.item_name, JStr("Unknown Item")).t = "str"
      /\ amount.ok /\ sentiment.ok /\ confidence.ok
      /\ ModelAccepts(amount.val, sentiment.val, confidence.val)

\* the category a label value stands for: the lookup for a string, Lainnya for
\* an unrecognized, absent or null value
CategoryOf(v) == IF v.t = "str" THEN map_category(v.s) ELSE "Lainnya"

\* the emotion a label value stands for, Netral for an unrecognized, absent or
\* null value
EmotionOf(v) == IF v.t = "str" THEN map_emotion(v.s) ELSE "Netral"

\* C16: whatever the category and emotion fields of the candidates hold
\* (a known label in any case, an unknown one, an absent or a null field), no
\* candidate and no batch is dropped for it: when the other fields of every
\* candidate are usable, the batch is validated, and each kept candidate's
\* extraction carries the mapped category, Lainnya for an unrecognized value,
\* and the mapped emotion, Netral for an unrecognized value (before the override).
C16_LabelsNeverDropCandidates ==
  (Returned /\ response.ok /\ ~response.null /\ ParsedItems # <<>>
     /\ \A i \in 1..Len(ParsedItems) :
          /\ ParsedItems[i].tok = "obj"
          /\ OtherFieldsUsable(ParsedItems[i].obj))
  => LET kept == SelectSeq(ParsedItems, IsKept)
     IN  /\ path = "validated"
         /\ Len(result) = Len(kept)
         /\ \A k \in 1..Len(kept) :
               /\ result[k].category = CategoryOf(kept[k].obj.category)
               /\ \/ result[k].emotion = EmotionOf(kept[k].obj.emotion)
                  \/ /\ EmotionOf(kept[k].obj.emotion) = "Netral"
                     /\ result[k].emotion = Detected.emotion

\* the tokens a..b of the response are a syntactically valid JSON array
ValidArrayAt(toks, a, b) == a < b /\ IsJsonArray(SubSeq(toks, a, b))

HasValidArray(toks) ==
  \E a \in 1..Len(toks) : \E b \in 1..Len(toks) : ValidArrayAt(toks, a, b)

\* the elements of the first valid JSON array substring of the response
FirstValidArrayElements(toks) ==
  LET a == CHOOSE x \in 1..Len(toks) :
             /\ \E b \in 1..Len(toks) : ValidArrayAt(toks, x, b)
             /\ \A y \in 1..(x - 1) : \A b \in 1..Len(toks) : ~ValidArrayAt(toks, y, b)
      b == CHOOSE x \in 1..Len(toks) :
             /\ ValidArrayAt(toks, a, x)
             /\ \A y \in 1..(x - 1) : ~ValidArrayAt(toks, a, y)
  IN  ArrayElements(SubSeq(toks, a + 1, b - 1), 1)

\* C17: for a response of arbitrary prose plus a valid JSON array of
\* candidates, also when the prose holds brackets of its own, the parsed
\* candidate list is exactly the elements of the first valid JSON array
\* substring of the response.
C17_ArrayRecoveredFromProse ==
  (Returned /\ response.ok /\ ~response.null /\ HasValidArray(response.content))
  => ParsedItems = FirstValidArrayElements(response.content)

IsObjectTok(t) == t.tok \in {"obj", "nested"}

\* C18: for a response string that holds no JSON array, the candidate list is
\* the one object when the response holds a single JSON object, and empty when
\* it holds none (the empty-parse path is taken); the parser itself never
\* raises: the except path is entered from a string response only when a
\* candidate fails in validation.
C18_ObjectThenEmpty ==
  (Returned /\ response.ok /\ ~response.null)
  => LET objs == SelectSeq(response.content, IsObjectTok)
     IN  /\ (~HasValidArray(response.content) /\ Len(objs) = 1)
              => (ParsedItems = <<Loaded(objs[1])>> /\ path # "empty_parse")
         /\ (~HasValidArray(response.content) /\ Len(objs) = 0)
              => (ParsedItems = <<>> /\ path = "empty_parse")
         /\ path = "except" => AnyItemRaises(ParsedItems, Detected)

\* a candidate as the instruction template asks for it: a name, a whole
\* non-negative amount, the two labels as strings, a sentiment score and a
\* confidence within their ranges
WellFormed(c) ==
  /\ c.item_name.t = "str" /\ c.item_name.s # ""
  /\ c.amount.t = "num" /\ c.amount.h >= 0 /\ c.amount.h % 100 = 0
  /\ c.category.t = "str" /\ c.emotion.t = "str"
  /\ c.sentiment_score.t = "num" /\ c.sentiment_score.h \in -100..100
  /\ c.ai_confidence.t = "num" /\ c.ai_confidence.h \in 0..100

\* the response is a JSON array of well-formed candidates and nothing else
WellFormedArray ==
  /\ response.ok /\ ~response.null
  /\ IsJsonArray(response.content)
  /\ \A i \in 2..(Len(response.content) - 1) :
        IsObjectTok(response.content[i]) => WellFormed(response.content[i].obj)
  /\ \A i \in 2..(Len(response.content) - 1) : response.content[i].tok # "scalar"

NonZero(item) == item.obj.amount.h # 0

\* the candidates of the array with a non-zero amount, in the array's order
NonZeroCandidates ==
  SelectSeq(SelectSeq(response.content, IsObjectTok), NonZero)

\* one extraction per candidate with a non-zero amount, in order, with the
\* candidate's amount and mapped category
OnePerNonZeroCandidate ==
  /\ path = "validated"
  /\ Len(result) = Len(NonZeroCandidates)
  /\ \A k \in 1..Len(NonZeroCandidates) :
        LET c == NonZeroCandidates[k].obj
        IN  /\ result[k].item_name = c.item_name.s
            /\ result[k].amount * 100 = c.amount.h
            /\ result[k].category = map_category(c.category.s)

KopiResponse == response = Completion(ArrayText(<<Kopi>>))

\* C19 (as stated): a JSON array of well-formed candidates gives one extraction
\* per candidate with a non-zero amount, in order, with its amount and mapped
\* category; the canned Kopi response gives exactly one extraction with amount
\* 25000, category Makanan & Minuman and emotion Netral.
C19_OnePerCandidateKopiNeutral ==
  (Returned /\ WellFormedArray)
  => /\ OnePerNonZeroCandidate
     /\ KopiResponse
          => /\ Len(result) = 1
             /\ result[1].amount = 25000
             /\ result[1].category = "Makanan & Minuman"
             /\ result[1].emotion = "Netral"

\* C19 (amended): as above for an array of one or more candidates (an empty
\* array takes the empty-parse fallback), and the canned Kopi response gives
\* emotion Netral when the detector finds no emotion in the message, the
\* detector's emotion otherwise.
C19_OnePerCandidateKopiDetected ==
  (Returned /\ WellFormedArray /\ Len(response.content) > 2)
  => /\ OnePerNonZeroCandidate
     /\ KopiResponse
          => /\ Len(result) = 1
             /\ result[1].amount = 25000
             /\ result[1].category = "Makanan & Minuman"
             /\ result[1].emotion = Detected.emotion

C19_Witness ==
  /\ Returned
  /\ WellFormedArray
  /\ KopiResponse
  /\ Detected.emotion = "Netral"
  /\ Len(result) = 1
  /\ result[1].amount = 25000
  /\ result[1].category = "Makanan & Minuman"
  /\ result[1].emotion = "Netral"

\* C20: every extraction returned, on every path and whatever the response
\* holds, has a non-empty item name, a category of the seven, an emotion of the
\* six, a sentiment score in [-1.0, 1.0] and a confidence in [0.0, 1.0].
C20_ReturnedExtractionsWithinModel ==
  Returned
  => \A i \in 1..Len(result) :
        /\ result[i].item_name # ""
        /\ result[i].category \in ExpenseCategory
        /\ result[i].emotion \in EmotionLabel
        /\ result[i].sentiment_score \in -100..100
        /\ result[i].ai_confidence \in 0..100

\* the suffixes of the first strategy in the order they are tried, each with
\* the number of zeros of its multiplier
Multipliers ==
  << [suf |-> "k", z |-> 3], [suf |-> "rb", z |-> 3], [suf |-> "ribu", z |-> 3],
     [suf |-> "jt", z |-> 6], [suf |-> "juta", z |-> 6] >>

\* the suffixes of which the lowercased text holds a suffix-qualified amount
SuffixHits(t) ==
  {m \in 1..Len(Multipliers) :
     \E i \in 1..Len(t) : SuffixMatchEnd(t, i, Multipliers[m].suf, TRUE) # 0}

DecimalHit(t) ==
  \E i \in 1..Len(t) : \E suf \in {"jt", "juta"} : DecimalMatchEnd(t, i, suf) # 0

\* a run of 4 or more digits starts at i
LongRunAt(t, i) == IsDigitAt(t, i) /\ DigitsEnd(t, i) - i >= 4

BareHit(t) == \E i \in 1..Len(t) : LongRunAt(t, i)

\* the digits of the leftmost amount with suffix number m, times its multiplier
SuffixValue(t, m) ==
  LET i == CHOOSE x \in 1..Len(t) :
             /\ SuffixMatchEnd(t, x, Multipliers[m].suf, TRUE) # 0
             /\ \A y \in 1..(x - 1) : SuffixMatchEnd(t, y, Multipliers[m].suf, TRUE) = 0
  IN  TimesPow10(Group1(t, i), Multipliers[m].z)

\* the value of the leftmost run of 4 or more digits
BareValue(t) ==
  LET i == CHOOSE x \in 1..Len(t) :
             LongRunAt(t, x) /\ \A y \in 1..(x - 1) : ~LongRunAt(t, y)
  IN  TimesPow10(Group1(t, i), 0)

\* C21: the fallback extractor returns the value of the first strategy that
\* matches, in the order suffix-qualified amount, decimal-million expression,
\* bare run of 4 or more digits, and returns None exactly when no strategy
\* matches the text.
C21_FirstMatchingStrategy ==
  fn = "extract_amount_fallback"
  => LET t == Lower(msg)
     IN  /\ ret = None <=> (SuffixHits(t) = {} /\ ~DecimalHit(t) /\ ~BareHit(t))
         /\ SuffixHits(t) # {}
              => \E m \in SuffixHits(t) :
                    /\ \A l \in SuffixHits(t) : m <= l
                    /\ ret = Some(SuffixValue(t, m))
         /\ (SuffixHits(t) = {} /\ ~DecimalHit(t) /\ BareHit(t))
              => ret = Some(BareValue(t))

C21_Witness ==
  /\ fn = "extract_amount_fallback"
  /\ msg = "5k 1500"
  /\ BareHit(msg) /\ SuffixHits(msg) = {1}
  /\ ret = Some("5000")

-----------------------------------------------------------------------------
(* Receipt path (services/scanner.py): the completion as a sequence of      *)
(* tokens.  "{" and "}" are braces, "head" the top-level keys of a receipt  *)
(* object, "item" the keys of one line item, "scalar" a JSON value that is  *)
(* not an object, "prose" any other text.                                   *)

\* number of entries in the items list of a generated receipt object
MaxEntries == 2

RTok(kind) ==
  [tok |-> kind, store_name |-> JAbsent, total_amount |-> JAbsent,
   date |-> JAbsent, items |-> "absent",
   name |-> JAbsent, quantity |-> JAbsent, price |-> JAbsent]

\* the top-level keys; items is "absent", "null" or "list"
HeadTok(store_name, total_amount, date, items) ==
  [RTok("head") EXCEPT !.store_name = store_name, !.total_amount = total_amount,
                       !.date = date, !.items = items]

ItemTok(name, quantity, price) ==
  [RTok("item") EXCEPT !.name = name, !.quantity = quantity, !.price = price]

\* the entries of an items list: objects {item} and scalars
RECURSIVE EntriesOk(_)
EntriesOk(e) ==
  \/ e = <<>>
  \/ /\ e[1].tok = "scalar"
     /\ EntriesOk(Tail(e))
  \/ /\ Len(e) >= 3
     /\ e[1].tok = "{" /\ e[2].tok = "item" /\ e[3].tok = "}"
     /\ EntriesOk(SubSeq(e, 4, Len(e)))

RECURSIVE Entries(_)
Entries(e) ==
  IF e = <<>> THEN <<>>
  ELSE IF e[1].tok = "scalar" THEN <<e[1]>> \o Entries(Tail(e))
  ELSE <<e[2]>> \o Entries(SubSeq(e, 4, Len(e)))

JSONDecodeError == [ok |-> FALSE, dict |-> FALSE, head |-> RTok("head"), entries |-> <<>>]

\* json.loads of a token sequence: one object, one scalar, or an error
json_loads(toks) ==
  IF Len(toks) = 1 /\ toks[1].tok = "scalar"
    THEN [ok |-> TRUE, dict |-> FALSE, head |-> RTok("head"), entries |-> <<>>]
  ELSE IF Len(toks) = 2 /\ toks[1].tok = "{" /\ toks[2].tok = "}"
    THEN [ok |-> TRUE, dict |-> TRUE, head |-> RTok("head"), entries |-> <<>>]
  ELSE IF /\ Len(toks) >= 3
          /\ toks[1].tok = "{" /\ toks[2].tok = "head" /\ toks[Len(toks)].tok = "}"
          /\ EntriesOk(SubSeq(toks, 3, Len(toks) - 1))
          /\ (toks[2].items = "list" \/ Len(toks) = 3)
    THEN [ok |-> TRUE, dict |-> TRUE, head |-> toks[2],
          entries |-> Entries(SubSeq(toks, 3, Len(toks) - 1))]
  ELSE JSONDecodeError

\* response_text.find('{'), 0 for -1
FindBrace(toks) ==
  IF \E i \in 1..Len(toks) : toks[i].tok = "{"
    THEN CHOOSE i \in 1..Len(toks) :
           toks[i].tok = "{" /\ \A j \in 1..(i - 1) : toks[j].tok # "{"
    ELSE 0

\* the bracket counting loop: the index of the "}" at which the depth
\* returns to zero, 0 when the loop ends without a break
RECURSIVE MatchEnd(_, _, _)
MatchEnd(toks, i, depth) ==
  IF i > Len(toks) THEN 0
  ELSE IF toks[i].tok = "{" THEN MatchEnd(toks, i + 1, depth + 1)
  ELSE IF toks[i].tok = "}"
    THEN IF depth - 1 = 0 THEN i ELSE MatchEnd(toks, i + 1, depth - 1)
  ELSE MatchEnd(toks, i + 1, depth)

\* json_str cut from the first "{" to the last "}" of the text
json_str_to_last_brace(toks) ==
  LET start_idx == FindBrace(toks)
      end == LastTok(toks, Len(toks), "}")
  IN  IF end < start_idx THEN <<>> ELSE SubSeq(toks, start_idx, end)

\* response_text[start_idx:end_idx]
json_str(toks) ==
  LET start_idx == FindBrace(toks)
      end == MatchEnd(toks, start_idx, 0)
  IN  IF end = 0 THEN <<>> ELSE SubSeq(toks, start_idx, end)

-----------------------------------------------------------------------------
(* ReceiptItem, ReceiptData and the building of a receipt from the data *)

ReceiptItem(name, quantity, price) ==
  [name |-> name, quantity |-> quantity, price |-> price]

ReceiptData(store_name, total_amount, date, items, raw_text) ==
  [store_name |-> store_name, total_amount |-> total_amount, date |-> date,
   items |-> items, raw_text |-> raw_text]

\* ReceiptData(raw_text=...): every other field at its default
DefaultReceipt(raw_text) == ReceiptData("Unknown Store", 0, JNull, <<>>, raw_text)

\* one entry of the loop over data.get("items", []): "raise" when the entry
\* has no .get, "skip" when the inner except catches, otherwise "item"
receipt_item(e) ==
  LET name == Get(e.name, JStr("Unknown"))
      quantity == IntOf(Get(e.quantity, JNum(100)))
      price == IntOf(Get(e.price, JNum(0)))
  IN  IF e.tok = "scalar" THEN [kind |-> "raise", item |-> ReceiptItem("", 0, 0)]
      ELSE IF ~quantity.ok \/ ~price.ok \/ name.t # "str"
        THEN [kind |-> "skip", item |-> ReceiptItem("", 0, 0)]
      ELSE [kind |-> "item", item |-> ReceiptItem(name.s, quantity.val, price.val)]

RECURSIVE receipt_items(_, _, _)
receipt_items(entries, i, items) ==
  IF i > Len(entries) THEN [ok |-> TRUE, items |-> items]
  ELSE LET r == receipt_item(entries[i])
       IN  CASE r.kind = "raise" -> [ok |-> FALSE, items |-> <<>>]
             [] r.kind = "skip" -> receipt_items(entries, i + 1, items)
             [] OTHER -> receipt_items(entries, i + 1, Append(items, r.item))

\* lines 252-270: the items loop and the ReceiptData constructor;
\* ok is FALSE when an exception leaves the block
receipt_from(data, raw_text) ==
  LET items == IF data.head.items = "null" THEN [ok |-> FALSE, items |-> <<>>]
               ELSE receipt_items(data.entries, 1, <<>>)
      store_name == Get(data.head.store_name, JStr("Unknown Store"))
      total_amount == IntOf(Get(data.head.total_amount, JNum(0)))
      date == Get(data.head.date, JNull)
  IN  IF /\ data.dict
         /\ items.ok
         /\ store_name.t = "str"
         /\ total_amount.ok
         /\ date.t \in {"null", "str"}
        THEN [ok |-> TRUE,
              receipt |-> ReceiptData(store_name.s, total_amount.val, date,
                                      items.items, raw_text)]
        ELSE [ok |-> FALSE, receipt |-> DefaultReceipt(raw_text)]

\* parse_receipt_response for a completion that is a text
parse_receipt_response(toks) ==
  LET whole == json_loads(toks)
      data == IF whole.ok THEN whole
              ELSE IF FindBrace(toks) = 0 THEN JSONDecodeError
              ELSE json_loads(json_str(toks))
  IN  IF ~data.ok THEN DefaultReceipt(toks)
      ELSE receipt_from(data, toks).receipt

-----------------------------------------------------------------------------
(* parse_text_with_accountant: OCR texts, completions and the actions *)

OcrTexts == {"", " ", " \n\t", "TOKO A Kopi 15000", "Indomaret Teh 2 x 5000"}

EmptyTextNote == "No text extracted from image."

TokoA == HeadTok(JStr("Toko A"), JNum(1500000), JStr("2024-01-15"), "list")

\* top-level keys followed by an items list
ListHeads ==
  {TokoA,
   HeadTok(JStr("Toko A"), JNum(-1500000), JAbsent, "list"),
   HeadTok(JStr("Toko A"), JNum(0), JNull, "list"),
   HeadTok(JStr("Toko A"), JNum(1500070), JAbsent, "list"),
   HeadTok(JStr("Toko A"), JStr("lima belas ribu"), JAbsent, "list"),
   HeadTok(JNull, JNum(1500000), JAbsent, "list"),
   HeadTok(JAbsent, JAbsent, JAbsent, "list")}

\* top-level keys without an items list
BareHeads ==
  {HeadTok(JStr("Toko A"), JNum(1500000), JAbsent, "absent"),
   HeadTok(JStr("Toko A"), JNum(1500000), JAbsent, "null"),
   HeadTok(JStr("Toko A"), JStr("15000"), JNum(2024), "absent"),
   HeadTok(JStr("Toko A"), JNull, JAbsent, "absent")}

KopiItem == ItemTok(JStr("Kopi"), JAbsent, JNum(1500000))

TehItem == ItemTok(JStr("Teh"), JNum(200), JNum(500000))

\* entries of an items list: line items and one value that is not an object
EntryToks ==
  {KopiItem, TehItem,
   ItemTok(JStr("Es"), JNum(0), JNum(-100)),
   ItemTok(JStr("Roti"), JStr("dua"), JNum(400000)),
   ItemTok(JStr("Gula"), JNull, JNum(300000)),
   ItemTok(JStr("Susu"), JNum(100), JStr("lima")),
   ItemTok(JNull, JNum(100), JNum(100000)),
   ItemTok(JAbsent, JStr("3"), JNum(25090)),
   RTok("scalar")}

RECURSIVE EntryLists(_)
EntryLists(n) ==
  IF n = 0 THEN {<<>>}
  ELSE LET L == EntryLists(n - 1)
       IN  L \cup {Append(l, e) : l \in L, e \in EntryToks}

RECURSIVE EntriesText(_, _)
EntriesText(entries, i) ==
  IF i > Len(entries) THEN <<>>
  ELSE (IF entries[i].tok = "scalar" THEN <<entries[i]>>
        ELSE <<RTok("{"), entries[i], RTok("}")>>)
         \o EntriesText(entries, i + 1)

\* the tokens of a receipt object
ObjectText(head, entries) ==
  <<RTok("{"), head>> \o EntriesText(entries, 1) \o <<RTok("}")>>

\* completions: one object, an empty object, prose, a scalar, an object inside
\* prose, two objects, a braced note before the object, braces left open or
\* closed once too often
ReceiptCompletions ==
  {Completion(ObjectText(h, l)) : h \in ListHeads, l \in EntryLists(MaxEntries)}
    \cup {Completion(ObjectText(h, <<>>)) : h \in BareHeads}
    \cup {Completion(<<>>),
          Completion(<<RTok("prose")>>),
          Completion(<<RTok("scalar")>>),
          Completion(<<RTok("{"), RTok("}")>>),
          Completion(<<RTok("prose")>> \o ObjectText(TokoA, <<KopiItem>>)
                       \o <<RTok("prose")>>),
          Completion(<<RTok("prose")>> \o ObjectText(TokoA, <<KopiItem, TehItem>>)),
          Completion(ObjectText(TokoA, <<KopiItem>>)
                       \o ObjectText(HeadTok(JStr("Toko B"), JNum(500), JAbsent, "list"),
                                     <<TehItem>>)),
          Completion(<<RTok("{"), RTok("prose"), RTok("}")>>
                       \o ObjectText(TokoA, <<KopiItem>>)),
          Completion(<<RTok("prose"), RTok("{"), TokoA, RTok("{"), KopiItem, RTok("}")>>),
          Completion(ObjectText(TokoA, <<KopiItem>>) \o <<RTok("}")>>),
          Completion(<<RTok("prose"), RTok("}")>> \o ObjectText(TokoA, <<TehItem>>))}

ReceiptResponses == ReceiptCompletions \cup {NullCompletion}

\* parse_text_call testing `not text` in place of `not text.strip()`
parse_text_call_no_strip ==
  /\ scan_pc = "start"
  /\ IF ocr_text = ""
       THEN /\ receipt_data' = DefaultReceipt(EmptyTextNote)
            /\ scan_pc' = "done"
            /\ UNCHANGED scan_calls
       ELSE /\ scan_calls' = scan_calls + 1
            /\ scan_pc' = "awaiting"
            /\ UNCHANGED receipt_data
  /\ UNCHANGED <<ocr_text, scan_response>>
  /\ UNCHANGED <<accountantVars, chatVars, concVars>>

\* lines 129-155: the blank-text return, otherwise the sending of the call
parse_text_call ==
  /\ scan_pc = "start"
  /\ IF Strip(ocr_text) = ""
       THEN /\ receipt_data' = DefaultReceipt(EmptyTextNote)
            /\ scan_pc' = "done"
            /\ UNCHANGED scan_calls
       ELSE /\ scan_calls' = scan_calls + 1
            /\ scan_pc' = "awaiting"
            /\ UNCHANGED receipt_data
  /\ UNCHANGED <<ocr_text, scan_response>>
  /\ UNCHANGED <<accountantVars, chatVars, concVars>>

\* scan_remote_raises returning ReceiptData() with no raw text attached
scan_remote_raises_no_raw_text ==
  /\ scan_pc = "awaiting"
  /\ scan_response' = CallFails
  /\ receipt_data' = DefaultReceipt("")
  /\ scan_pc' = "done"
  /\ UNCHANGED <<ocr_text, scan_calls>>
  /\ UNCHANGED <<accountantVars, chatVars, concVars>>

\* the call raises: lines 167-171
scan_remote_raises ==
  /\ scan_pc = "awaiting"
  /\ scan_response' = CallFails
  /\ receipt_data' = DefaultReceipt(ocr_text)
  /\ scan_pc' = "done"
  /\ UNCHANGED <<ocr_text, scan_calls>>
  /\ UNCHANGED <<accountantVars, chatVars, concVars>>

\* the call returns: lines 157-165; a None content raises at line 222 and is
\* caught at line 167
scan_remote_returns ==
  /\ scan_pc = "awaiting"
  /\ \E r \in ReceiptResponses :
       /\ scan_response' = r
       /\ receipt_data' =
            IF r.null THEN DefaultReceipt(ocr_text)
            ELSE [parse_receipt_response(r.content) EXCEPT !.raw_text = ocr_text]
  /\ scan_pc' = "done"
  /\ UNCHANGED <<ocr_text, scan_calls>>
  /\ UNCHANGED <<accountantVars, chatVars, concVars>>

InitScan ==
  /\ ocr_text \in OcrTexts
  /\ scan_pc = "start"
  /\ scan_response = NoResponse
  /\ receipt_data = DefaultReceipt("")
  /\ scan_calls = 0
  /\ AccountantIdle /\ ChatIdle /\ ConcIdle

NextScan == parse_text_call \/ scan_remote_raises \/ scan_remote_returns

SpecScan == InitScan /\ [][NextScan]_vars

-----------------------------------------------------------------------------
(* Claims about the receipt path *)

BlankText == Strip(ocr_text) = ""

\* C22: for an OCR text that is empty or only whitespace no remote call is
\* ever made, and what parse_text_with_accountant returns is the default
\* ReceiptData: store "Unknown Store", total 0, no items, and the note that no
\* text was extracted as raw_text.
C22_BlankTextDefaultWithoutCall ==
  (scan_pc # "none" /\ BlankText)
  => /\ scan_calls = 0
     /\ scan_pc # "awaiting"
     /\ scan_response = NoResponse
     /\ scan_pc = "done"
          => /\ receipt_data.store_name = "Unknown Store"
             /\ receipt_data.total_amount = 0
             /\ receipt_data.items = <<>>
             /\ receipt_data.raw_text = EmptyTextNote

C22_Witness ==
  /\ scan_pc = "done" /\ ocr_text = " \n\t"
  /\ scan_calls = 0 /\ receipt_data.raw_text = EmptyTextNote

\* the completion is a text that is, as a whole, one JSON object
WholeObject(r) ==
  r.ok /\ ~r.null /\ json_loads(r.content).ok /\ json_loads(r.content).dict

\* the top-level keys can be read: a store name that is a string or missing,
\* a total that int() accepts or that is missing, a date that is a string,
\* null or missing, and an items list
UsableHead(h) ==
  /\ Get(h.store_name, JStr("Unknown Store")).t = "str"
  /\ IntOf(Get(h.total_amount, JNum(0))).ok
  /\ Get(h.date, JNull).t \in {"null", "str"}
  /\ h.items = "list"

\* an entry of the items list that is a line item with a usable name and
\* with quantity and price that int() accepts
WellFormedEntry(e) ==
  /\ e.tok = "item"
  /\ Get(e.name, JStr("Unknown")).t = "str"
  /\ IntOf(Get(e.quantity, JNum(100))).ok
  /\ IntOf(Get(e.price, JNum(0))).ok

LineItemOf(e) ==
  ReceiptItem(Get(e.name, JStr("Unknown")).s,
              IntOf(Get(e.quantity, JNum(100))).val,
              IntOf(Get(e.price, JNum(0))).val)

KeptLineItems(entries) ==
  LET kept == SelectSeq(entries, WellFormedEntry)
  IN  [i \in 1..Len(kept) |-> LineItemOf(kept[i])]

\* C23: for a response that is one JSON object with readable top-level keys,
\* every entry of the items list that is malformed (quantity or price that
\* int() refuses, or any other defect) is skipped, every other entry is kept
\* in order, and the object's store_name and total_amount are returned.
C23_BadItemSkippedOthersKept ==
  (scan_pc = "done" /\ WholeObject(scan_response)
     /\ UsableHead(json_loads(scan_response.content).head))
  => LET data == json_loads(scan_response.content)
     IN  /\ receipt_data.store_name
              = Get(data.head.store_name, JStr("Unknown Store")).s
         /\ receipt_data.total_amount
              = IntOf(Get(data.head.total_amount, JNum(0))).val
         /\ receipt_data.items = KeptLineItems(data.entries)

\* neither the whole text nor the text between the first "{" and its
\* matching "}" is a JSON object
NoObjectParsed(toks) ==
  /\ ~json_loads(toks).dict
  /\ FindBrace(toks) = 0 \/ ~json_loads(json_str(toks)).dict

\* C24: when the remote call fails, or returns no text, or returns a text
\* from which no JSON object can be parsed, parse_text_with_accountant
\* returns a ReceiptData with the default store name, total 0, no line items
\* and the OCR text as raw_text.
C24_FailureReturnsDefaultWithOcrText ==
  (scan_pc = "done" /\ ~BlankText
     /\ (~scan_response.ok \/ scan_response.null
           \/ NoObjectParsed(scan_response.content)))
  => /\ receipt_data.store_name = "Unknown Store"
     /\ receipt_data.total_amount = 0
     /\ receipt_data.items = <<>>
     /\ receipt_data.raw_text = ocr_text

C24_Witness ==
  /\ scan_pc = "done" /\ ocr_text = "TOKO A Kopi 15000"
  /\ scan_response
       = Completion(<<RTok("prose"), RTok("{"), TokoA, RTok("{"), KopiItem, RTok("}")>>)
  /\ receipt_data.total_amount = 0 /\ receipt_data.raw_text = ocr_text

\* the remote call raised and the default came back
C24_WitnessCallFails ==
  /\ scan_pc = "done" /\ scan_response = CallFails
  /\ receipt_data.raw_text = ocr_text

\* C25: every ReceiptData returned on the receipt path has a total that is
\* not negative, and every line item in it has a quantity of at least 1 and
\* a price that is not negative.
C25_ReceiptNumbersInRange ==
  scan_pc = "done"
  => /\ receipt_data.total_amount >= 0
     /\ \A i \in 1..Len(receipt_data.items) :
          /\ receipt_data.items[i].quantity >= 1
          /\ receipt_data.items[i].price >= 0

\* number of tokens of a kind among toks[a..b]
CountTok(toks, a, b, kind) == Cardinality({j \in a..b : toks[j].tok = kind})

\* the brace depth after toks[a..b]
DepthAfter(toks, a, b) == CountTok(toks, a, b, "{") - CountTok(toks, a, b, "}")

\* the positions of a "}" at which the depth counted from a is zero
ClosingAt(toks, a) ==
  {b \in a..Len(toks) : toks[b].tok = "}" /\ DepthAfter(toks, a, b) = 0}

\* the receipt a substring yields once parsed
ReceiptOfSubstring(sub) ==
  IF json_loads(sub).ok THEN receipt_from(json_loads(sub), sub).receipt
  ELSE DefaultReceipt(sub)

SameReceipt(r, q) ==
  /\ r.store_name = q.store_name /\ r.total_amount = q.total_amount
  /\ r.date = q.date /\ r.items = q.items

\* C28: when the whole response is not valid JSON and holds a "{" whose depth
\* returns to zero, what is parsed is the text from the first "{" to the
\* first "}" at which the depth is zero; and a response that is exactly one
\* JSON object of well-formed line items yields the object's total_amount and
\* quantity 1 for each line item that has no quantity.
C28_BraceMatchedObjectAndDefaultQuantity ==
  scan_pc = "done" /\ scan_response.ok /\ ~scan_response.null
  => LET toks == scan_response.content
         a == FindBrace(toks)
         data == json_loads(toks)
     IN  /\ (~data.ok /\ a # 0 /\ ClosingAt(toks, a) # {})
              => \E b \in ClosingAt(toks, a) :
                    /\ \A c \in ClosingAt(toks, a) : b <= c
                    /\ SameReceipt(receipt_data, ReceiptOfSubstring(SubSeq(toks, a, b)))
         /\ (WholeObject(scan_response) /\ UsableHead(data.head)
               /\ \A i \in 1..Len(data.entries) : WellFormedEntry(data.entries[i]))
              => /\ receipt_data.total_amount
                      = IntOf(Get(data.head.total_amount, JNum(0))).val
                 /\ Len(receipt_data.items) = Len(data.entries)
                 /\ \A i \in 1..Len(data.entries) :
                      data.entries[i].quantity = JAbsent
                        => receipt_data.items[i].quantity = 1

\* two objects in one text: the first one is the receipt
C28_Witness ==
  /\ scan_pc = "done"
  /\ ~json_loads(scan_response.content).ok
  /\ Len(scan_response.content) = 12
  /\ scan_response.content[7].tok = "{"
  /\ receipt_data.store_name = "Toko A"
  /\ receipt_data.total_amount = 15000
  /\ receipt_data.items = <<ReceiptItem("Kopi", 1, 15000)>>

\* exactly one object whose line item has no quantity
C28_WitnessDefaultQuantity ==
  /\ scan_pc = "done"
  /\ scan_response = Completion(ObjectText(TokoA, <<KopiItem>>))
  /\ receipt_data.total_amount = 15000
  /\ receipt_data.items = <<ReceiptItem("Kopi", 1, 15000)>>

-----------------------------------------------------------------------------
(* Claims about the boundary of extract_multiple_expenses *)

-----------------------------------------------------------------------------
(* Concurrent invocations of extract_multiple_expenses.  Every name the      *)
(* function assigns is a local of one invocation; the only module-level      *)
(* name it reads is groq_client, which no invocation assigns.                *)

\* number of invocations in flight together
MaxInvocations == 2

Invocations == 1..MaxInvocations

ConcMessages == {"hai", "beli kopi 25k", "beli ayam 12k anjing mahal bgt", "2.5jt"}

ConcResponses ==
  {CallFails, NullCompletion,
   Completion(<<Tok("prose")>>),
   Completion(ArrayText(<<Kopi>>)),
   Completion(ArrayText(<<Kopi, Ayam>>)),
   Completion(<<Tok("["), Tok("scalar"), Tok("]")>>)}

Invocation(user_message) ==
  [user_message |-> user_message, pc |-> "start", normalized_message |-> "",
   response |-> NoResponse, result |-> <<>>, raised |-> FALSE]

\* user_message as read by invocation i while every invocation reads the
\* name bound by the first one
user_message_of_first(i) == inv[1].user_message

\* user_message as read by invocation i: its own parameter
user_message_of(i) == inv[i].user_message

\* invocation i runs lines 330-346: gate, normalizer, sending of the call
invoke_call(i) ==
  /\ inv[i].pc = "start"
  /\ groq_client = "Groq"
  /\ inv' = [inv EXCEPT ![i] =
               IF ~has_expense_pattern(user_message_of(i))
               THEN [@ EXCEPT !.pc = "done", !.result = <<>>]
               ELSE [@ EXCEPT !.pc = "awaiting",
                              !.normalized_message = remote_payload(user_message_of(i))]]
  /\ UNCHANGED groq_client
  /\ UNCHANGED <<accountantVars, scanVars, chatVars>>

\* the call of invocation i raises or returns, and the invocation runs to
\* its return
invoke_returns(i) ==
  /\ inv[i].pc = "awaiting"
  /\ \E r \in ConcResponses :
       LET out == after_remote_call(user_message_of(i), r)
       IN  inv' = [inv EXCEPT ![i] =
                     [@ EXCEPT !.pc = "done", !.response = r,
                               !.result = out.result, !.raised = out.raised]]
  /\ UNCHANGED groq_client
  /\ UNCHANGED <<accountantVars, scanVars, chatVars>>

InitConc ==
  /\ inv \in [Invocations -> {Invocation(m) : m \in ConcMessages}]
  /\ groq_client = "Groq"
  /\ AccountantIdle /\ ScanIdle /\ ChatIdle

NextConc == \E i \in Invocations : invoke_call(i) \/ invoke_returns(i)

SpecConc == InitConc /\ [][NextConc]_vars

\* C27: under every interleaving of the invocations, what each one sends is
\* the normalisation of its own message and what it returns is what it
\* returns alone for its own message and the outcome of its own call; a step
\* of one invocation changes nothing of another, and no step assigns
\* groq_client.
C27_InvocationsIndependent ==
  /\ [](\A i \in DOMAIN inv :
          /\ inv[i].pc = "awaiting"
               => inv[i].normalized_message
                    = normalize_amount_string(inv[i].user_message)
          /\ inv[i].pc = "done"
               => /\ inv[i].result
                       = extract_multiple_expenses(inv[i].user_message, inv[i].response)
                  /\ ~inv[i].raised)
  /\ [][/\ groq_client' = groq_client
        /\ \A i \in DOMAIN inv :
             inv'[i] # inv[i] => \A j \in DOMAIN inv \ {i} : inv'[j] = inv[j]]_vars

\* both invocations were awaiting together and returned for different
\* messages, the second before the first
C27_Witness ==
  /\ inv # <<>>
  /\ inv[1].pc = "awaiting" /\ inv[1].user_message = "beli kopi 25k"
  /\ inv[2].pc = "done" /\ inv[2].user_message = "beli ayam 12k anjing mahal bgt"
  /\ inv[2].response = Completion(ArrayText(<<Kopi>>))
  /\ Len(inv[2].result) = 1 /\ inv[2].result[1].emotion = "Marah"

-----------------------------------------------------------------------------
(* Chat route (routes/chat.py): process_chat_message.  msg is the message   *)
(* of the request, expenses the rows of the expenses table.                 *)

\* re.search of a.*(b1|b2|...): "." matches no newline
ContainsThen(s, a, bs) ==
  \E i \in 1..Len(s) :
    /\ StartsAt(s, i, a)
    /\ \E j \in (i + Len(a))..Len(s) :
         /\ \E b \in bs : StartsAt(s, j, b)
         /\ \A k \in (i + Len(a))..(j - 1) : Ch(s, k) # "\n"

is_review_request(message) ==
  LET message_lower == Lower(message)
  IN  \/ ContainsAny(message_lower, {"review", "insight", "laporan", "rangkum",
                                     "summary", "statistik", "rekap"})
      \/ ContainsThen(message_lower, "pengeluaran", {"bulan", "minggu", "hari"})
      \/ ContainsThen(message_lower, "berapa", {"total", "habis", "keluar"})
      \/ ContainsThen(message_lower, "lihat", {"data", "pengeluaran"})

\* the ChatResponse of the route, or the HTTPException it raises
ChatResponse(expense_saved, expenses_count, expense_data) ==
  [status |-> 200, expense_saved |-> expense_saved,
   expenses_count |-> expenses_count, expense_data |-> expense_data]

HTTPException(status_code) ==
  [status |-> status_code, expense_saved |-> FALSE, expenses_count |-> 0,
   expense_data |-> <<>>]

NoChatResponse == HTTPException(0)

\* ExpenseCreate built from an extraction: the row that is inserted
ExpenseCreate(extraction, description) ==
  [item_name |-> extraction.item_name, description |-> description,
   amount |-> extraction.amount, category |-> extraction.category,
   emotion_label |-> extraction.emotion,
   sentiment_score |-> extraction.sentiment_score,
   ai_confidence |-> extraction.ai_confidence]

\* the test of line 219 with zero let through
saves_extraction_nonnegative(extraction) == extraction.amount >= 0

\* the test of line 219
saves_extraction(extraction) == extraction.amount > 0

ChatMessages ==
  {"beli kopi 25k", "beli ayam 12k anjing mahal bgt", "hai", "rekap dong",
   "pengeluaran bulan ini 50k", "Berapa total\nhabis 50k", "lihat\ndata 50k"}

Permen ==
  Candidate(JStr("Permen"), JNum(50), JStr("food"), JStr("Senang"), JNum(70), JNum(80))

ChatCandidates == {Kopi, Ayam, Permen}

RECURSIVE ChatCandidateLists(_)
ChatCandidateLists(n) ==
  IF n = 0 THEN {<<>>}
  ELSE LET L == ChatCandidateLists(n - 1)
       IN  L \cup {Append(l, c) : l \in L, c \in ChatCandidates}

\* outcomes of the accountant's remote call during a chat request
ChatRemoteOutcomes ==
  {CallFails} \cup {Completion(ArrayText(l)) : l \in ChatCandidateLists(MaxItems)}

\* lines 160-209: authentication, the user message saved, the review branch
chat_receive ==
  /\ chat_pc = "start"
  /\ \E authenticated \in BOOLEAN :
       IF ~authenticated
       THEN /\ chat_out' = HTTPException(401)
            /\ chat_pc' = "done"
       ELSE IF is_review_request(msg)
       THEN /\ chat_out' = ChatResponse(FALSE, 0, <<>>)
            /\ chat_pc' = "done"
       ELSE /\ chat_pc' = "extract"
            /\ UNCHANGED chat_out
  /\ UNCHANGED <<extractions, next_extraction, saved_expenses, expenses>>
  /\ UNCHANGED <<accountantVars, scanVars, concVars>>

\* lines 212-215
chat_extract ==
  /\ chat_pc = "extract"
  /\ \E r \in ChatRemoteOutcomes :
       extractions' = extract_multiple_expenses(msg, r)
  /\ saved_expenses' = <<>>
  /\ next_extraction' = 1
  /\ chat_pc' = "saving"
  /\ UNCHANGED <<expenses, chat_out>>
  /\ UNCHANGED <<accountantVars, scanVars, concVars>>

\* one round of the loop of lines 218-240; the insert returns the row
chat_save_next ==
  /\ chat_pc = "saving"
  /\ next_extraction <= Len(extractions)
  /\ LET extraction == extractions[next_extraction]
     IN  IF saves_extraction(extraction)
         THEN /\ expenses' = Append(expenses, ExpenseCreate(extraction, msg))
              /\ saved_expenses' = Append(saved_expenses, ExpenseCreate(extraction, msg))
         ELSE UNCHANGED <<expenses, saved_expenses>>
  /\ next_extraction' = next_extraction + 1
  /\ UNCHANGED <<chat_pc, extractions, chat_out>>
  /\ UNCHANGED <<accountantVars, scanVars, concVars>>

\* lines 242-270: the counts, the reply and the ChatResponse
chat_respond ==
  /\ chat_pc = "saving"
  /\ next_extraction > Len(extractions)
  /\ LET expenses_count == Len(saved_expenses)
         expense_saved == expenses_count > 0
     IN  chat_out' = ChatResponse(expense_saved, expenses_count,
                                  IF expense_saved THEN saved_expenses ELSE <<>>)
  /\ chat_pc' = "done"
  /\ UNCHANGED <<extractions, next_extraction, saved_expenses, expenses>>
  /\ UNCHANGED <<accountantVars, scanVars, concVars>>

\* lines 274-278: a database or reply call raises (history, an insert, the
\* reply, the saving of the reply); rows already inserted stay
chat_fails ==
  /\ chat_pc \in {"extract", "saving"}
  /\ chat_out' = HTTPException(500)
  /\ chat_pc' = "done"
  /\ UNCHANGED <<extractions, next_extraction, saved_expenses, expenses>>
  /\ UNCHANGED <<accountantVars, scanVars, concVars>>

InitChat ==
  /\ msg \in ChatMessages
  /\ pc = "none" /\ payload = "" /\ response = NoResponse /\ result = <<>>
  /\ raised = FALSE /\ path = "none" /\ calls = <<>> /\ fn = "none" /\ ret = ""
  /\ chat_pc = "start"
  /\ extractions = <<>>
  /\ next_extraction = 1
  /\ saved_expenses = <<>>
  /\ expenses = <<>>
  /\ chat_out = NoChatResponse
  /\ ScanIdle /\ ConcIdle

NextChat ==
  chat_receive \/ chat_extract \/ chat_save_next \/ chat_respond \/ chat_fails

SpecChat == InitChat /\ [][NextChat]_vars

-----------------------------------------------------------------------------
(* Claims about the chat route *)

PositiveAmount(extraction) == extraction.amount > 0

\* the rows for the extractions with a positive amount, in their order
RowsFor(list, description) ==
  LET positive == SelectSeq(list, PositiveAmount)
  IN  [i \in 1..Len(positive) |-> ExpenseCreate(positive[i], description)]

IsPrefix(a, b) == Len(a) <= Len(b) /\ a = SubSeq(b, 1, Len(a))

\* C29: no row with a zero amount is ever inserted; the rows inserted so far
\* are the first of the rows for the returned extractions with amount > 0, in
\* order; and when the route returns a ChatResponse there is a row for
\* exactly those extractions, expenses_count is the number of rows and
\* expense_saved tells whether that number is positive.
C29_RowsForPositiveExtractions ==
  chat_pc \in {"saving", "done"}
  => /\ \A i \in 1..Len(expenses) : expenses[i].amount > 0
     /\ IsPrefix(expenses, RowsFor(extractions, msg))
     /\ (chat_pc = "done" /\ chat_out.status = 200)
          => /\ expenses = RowsFor(extractions, msg)
             /\ chat_out.expenses_count = Len(expenses)
             /\ chat_out.expense_saved <=> Len(expenses) > 0

\* a zero-amount extraction came back before a positive one: one row
C29_Witness ==
  /\ chat_pc = "done" /\ chat_out.status = 200 /\ msg = "beli kopi 25k"
  /\ Len(extractions) = 2
  /\ extractions[1].amount = 0 /\ extractions[2].amount = 25000
  /\ Len(expenses) = 1 /\ expenses[1].item_name = "Kopi"
  /\ chat_out.expenses_count = 1 /\ chat_out.expense_saved

-----------------------------------------------------------------------------
(* Claims relating the fallback extractor and the normalizer *)

\* the positions at which a maximal run of digits starts
RunStarts(t) == {i \in 1..Len(t) : IsDigitAt(t, i) /\ ~IsDigitAt(t, i - 1)}

\* the text holds one run of digits and it is the number of a suffixed amount
OneSuffixedAmount(t) ==
  \E i \in RunStarts(t) :
    /\ RunStarts(t) = {i}
    /\ \E suf \in {"k", "rb", "ribu", "jt", "juta"} : SuffixMatchEnd(t, i, suf, TRUE) # 0

\* the text holds two runs of digits and they are the whole and the fraction
\* of one decimal million
OneDecimalMillion(t) ==
  \E i \in RunStarts(t) :
    /\ Cardinality(RunStarts(t)) = 2
    /\ \A j \in RunStarts(t) : i <= j
    /\ \E suf \in {"jt", "juta"} : DecimalMatchEnd(t, i, suf) # 0

\* the text holds one run of digits and it is a bare number of 4 or more
OneBareNumber(t) ==
  \E i \in RunStarts(t) : RunStarts(t) = {i} /\ BareRunAt(t, i)

OneAmountExpression(t) ==
  OneSuffixedAmount(t) \/ OneDecimalMillion(t) \/ OneBareNumber(t)

\* C30: for every text that holds exactly one amount expression (a number
\* with a thousand or million suffix, a decimal million, or a bare number of
\* 4 or more digits), extract_amount_fallback returns the integer that
\* stands for that expression in the text normalize_amount_string writes.
C30_FallbackAgreesWithNormalizer ==
  (fn = "extract_amount_fallback" /\ OneAmountExpression(Lower(msg)))
  => LET n == normalize_amount_string(msg)
     IN  \E j \in RunStarts(n) :
           /\ RunStarts(n) = {j}
           /\ ret = Some(TimesPow10(Group1(n, j), 0))

====
